---------------------------- MODULE Spec2Model ----------------------------
(***************************************************************************)
(* A model of the AI-Powered Resume Builder with Job Matching System:      *)
(* the full application's session state (src/app.py), the matching agent   *)
(* (src/src/agents.py), the PDF builders (src/src/reporting.py,            *)
(* src/pdf_diagnostic.py), the AI content generator                        *)
(* (src/src/ai_content_generator.py) and the prototype's match tab.        *)
(*                                                                         *)
(* Text is a tuple of one-character strings, so that strip(), lower() and  *)
(* title() are computed character by character as Python computes them.    *)
(* Floating-point values are exact rationals <<numerator, denominator>>.   *)
(***************************************************************************)
EXTENDS Integers, Sequences, FiniteSets, TLC

VARIABLES
    clicks,            \* how many interactions the session has seen
    mode,              \* the sidebar radio's choice: the page the script renders
    session_state,     \* st.session_state of the full application
    ranked_resumes,    \* the ranking the Resume Matching page is displaying
    last,              \* what the last script run did and showed
    recorded,          \* history: traces recorded since the start or the last Clear
    score_sum,         \* history: sum of the match_score values recorded since then
    score_count,       \* history: how many were recorded
    passed,            \* history: the skills passed to update_skills_database since then
    chroma,            \* the persisted vector-store collections (.chroma)
    agent_call,        \* the last matcher_and_scoring_agent call and its outcome
    stored_docs,       \* the documents of one named Chroma collection, by insertion
    sessions,          \* each session's position inside ChromaVectorStore.add_texts
    pdf_env,           \* which PDF backends this installation can import
    pdf_call,          \* the last PDF builder call and its outcome
    ai_env,            \* whether an API credential is configured
    ai_call,           \* the last AIContentGenerator call and its outcome
    tmp_files,         \* the temporary files that exist (prototype match tab)
    proto,             \* the prototype match tab's last operation
    lib_call           \* the last call of a library function and its result

appVars   == <<clicks, mode, session_state, ranked_resumes, last, recorded, score_sum,
               score_count, passed>>
agentVars == <<chroma, agent_call, stored_docs, sessions>>
pdfVars   == <<pdf_env, pdf_call>>
aiVars    == <<ai_env, ai_call>>
protoVars == <<tmp_files, proto>>
libVars   == <<lib_call>>
vars      == <<clicks, mode, session_state, ranked_resumes, last, recorded, score_sum,
               score_count, passed,
               chroma, agent_call, stored_docs, sessions,
               pdf_env, pdf_call, ai_env, ai_call, tmp_files, proto, lib_call>>

----------------------------------------------------------------------------
(* Bounds of the model *)

MaxClicks   == 4      \* user interactions explored per session
MaxItems    == 1      \* entries of a dynamic form list

----------------------------------------------------------------------------
(* Sequences *)

Range(s) == {s[i] : i \in 1..Len(s)}

RECURSIVE SumSeq(_)
SumSeq(s) == IF s = <<>> THEN 0 ELSE Head(s) + SumSeq(Tail(s))

\* s[-n:] of Python
LastN(s, n) == IF Len(s) <= n THEN s ELSE SubSeq(s, Len(s) - n + 1, Len(s))

\* s.pop(i) of Python (i counted from 1 here)
RemoveAt(s, i) == SubSeq(s, 1, i - 1) \o SubSeq(s, i + 1, Len(s))

----------------------------------------------------------------------------
(* Exact rationals for Python floats: <<n, d>> with d > 0, in lowest terms *)

Abs(x) == IF x < 0 THEN -x ELSE x

RECURSIVE Gcd(_, _)
Gcd(a, b) == IF b = 0 THEN a ELSE Gcd(b, a % b)

Rat(n, d) ==
    LET g == Gcd(Abs(n), Abs(d))
        s == IF d < 0 THEN -1 ELSE 1
    IN  IF n = 0 THEN <<0, 1>> ELSE <<(s * n) \div g, (s * d) \div g>>

RInt(k)    == <<k, 1>>
RAdd(a, b) == Rat(a[1] * b[2] + b[1] * a[2], a[2] * b[2])
RMul(a, b) == Rat(a[1] * b[1], a[2] * b[2])
RDiv(a, b) == Rat(a[1] * b[2], a[2] * b[1])
RLeq(a, b) == a[1] * b[2] <= b[1] * a[2]
RMin(a, b) == IF RLeq(a, b) THEN a ELSE b
RMax(a, b) == IF RLeq(a, b) THEN b ELSE a

RECURSIVE RSum(_)
RSum(s) == IF s = <<>> THEN RInt(0) ELSE RAdd(Head(s), RSum(Tail(s)))

----------------------------------------------------------------------------
(* Python's str.strip, str.lower and str.title on tuples of characters *)

LowerLetters == <<"a","b","c","d","e","f","g","h","i","j","k","l","m",
                  "n","o","p","q","r","s","t","u","v","w","x","y","z">>
UpperLetters == <<"A","B","C","D","E","F","G","H","I","J","K","L","M",
                  "N","O","P","Q","R","S","T","U","V","W","X","Y","Z">>

LowerSet == {LowerLetters[i] : i \in 1..26}
UpperSet == {UpperLetters[i] : i \in 1..26}
UpperOf  == [c \in LowerSet |-> UpperLetters[CHOOSE i \in 1..26 : LowerLetters[i] = c]]
LowerOf  == [c \in UpperSet |-> LowerLetters[CHOOSE i \in 1..26 : UpperLetters[i] = c]]

IsLower(c) == c \in LowerSet
IsUpper(c) == c \in UpperSet
IsCased(c) == IsLower(c) \/ IsUpper(c)
IsSpace(c) == c \in {" ", "\t", "\n"}

ToUpper(c) == IF IsLower(c) THEN UpperOf[c] ELSE c
ToLower(c) == IF IsUpper(c) THEN LowerOf[c] ELSE c

RECURSIVE LStrip(_)
LStrip(s) == IF s # <<>> /\ IsSpace(Head(s)) THEN LStrip(Tail(s)) ELSE s

RECURSIVE RStrip(_)
RStrip(s) == IF s # <<>> /\ IsSpace(s[Len(s)]) THEN RStrip(SubSeq(s, 1, Len(s) - 1)) ELSE s

Strip(s) == RStrip(LStrip(s))

Lower(s) == [i \in 1..Len(s) |-> ToLower(s[i])]

\* str.title: a cased character is upper-cased when the character before it is
\* not cased (or there is none) and lower-cased otherwise
Title(s) ==
    [i \in 1..Len(s) |->
        IF ~IsCased(s[i]) THEN s[i]
        ELSE IF i > 1 /\ IsCased(s[i - 1]) THEN ToLower(s[i]) ELSE ToUpper(s[i])]

----------------------------------------------------------------------------
(* The texts of the model *)

sql       == <<"s","q","l">>
SQL_      == <<"S","Q","L">>
sql_pad   == <<" ","s","q","l"," ">>
go        == <<"g","o">>
nodejs    == <<"n","o","d","e",".","j","s">>
blank     == <<" ">>
empty     == <<>>
ann       == <<"A","n","n">>
mail      == <<"a","@","x">>
tel       == <<"1">>

\* the demonstration data of create_analytical_dashboard
DemoSkills ==
    { <<<<"P","y","t","h","o","n">>, 15>>,
      <<<<"J","a","v","a","S","c","r","i","p","t">>, 12>>,
      <<<<"R","e","a","c","t">>, 10>>,
      <<<<"M","a","c","h","i","n","e"," ","L","e","a","r","n","i","n","g">>, 8>>,
      <<SQL_, 7>>,
      <<<<"A","W","S">>, 6>>,
      <<<<"D","o","c","k","e","r">>, 5>>,
      <<<<"N","o","d","e",".","j","s">>, 4>> }


----------------------------------------------------------------------------
(* Session state of the full application (src/app.py) *)

MaxTraces == 10

Modes == {"Welcome", "Resume Builder", "Resume Matching", "Analytics Dashboard"}

\* get_available_workflow_styles
WorkflowStyles == <<"skills_focused", "modern", "timeline", "circular",
                    "hierarchical", "sankey", "enhanced">>

ZeroMetrics ==
    [total_analyses |-> 0, resumes_processed |-> 0, avg_match_score |-> RInt(0),
     total_skills_identified |-> 0, ai_suggestions_generated |-> 0,
     workflow_traces |-> <<>>]

\* the trace of create_demo_workflow_trace
DemoTrace ==
    [steps |-> <<"Resume Parser", "Job Parser", "Content Enhancer", "Matcher & Scoring">>,
     subject |-> "demo"]

DemoSkillsDatabase ==
    [k \in {p[1] : p \in DemoSkills} |-> (CHOOSE p \in DemoSkills : p[1] = k)[2]]

\* a key that is "not in st.session_state" keeps the placeholder given here
FreshSession ==
    [present |-> {},
     session_metrics |-> ZeroMetrics,
     skills_database |-> <<>>,
     selected_workflow_style |-> "(unset)",
     certifications_items |-> <<>>,
     form |-> [name |-> empty, email |-> empty, phone |-> empty]]

Has(st, key) == key \in st.present

InitMetrics(st) ==
    IF Has(st, "session_metrics") THEN st
    ELSE [st EXCEPT !.present = @ \cup {"session_metrics"}, !.session_metrics = ZeroMetrics]

update_session_metrics_uncapped(st, data) ==
    LET s0 == InitMetrics(st)
        m  == s0.session_metrics
        n  == m.total_analyses + 1
        avg == RDiv(RAdd(RMul(m.avg_match_score, RInt(n - 1)), data.match_score), RInt(n))
        tr == IF "workflow_trace" \in DOMAIN data
              THEN Append(m.workflow_traces, data.workflow_trace)
              ELSE m.workflow_traces
    IN  [s0 EXCEPT !.session_metrics =
            [total_analyses |-> n,
             resumes_processed |-> m.resumes_processed + data.resumes_count,
             avg_match_score |-> avg,
             total_skills_identified |-> m.total_skills_identified + data.skills_identified,
             ai_suggestions_generated |-> m.ai_suggestions_generated + data.ai_suggestions,
             workflow_traces |-> tr]]

update_session_metrics_wrong_weight(st, data) ==
    LET s0 == InitMetrics(st)
        m  == s0.session_metrics
        n  == m.total_analyses + 1
        avg == RDiv(RAdd(RMul(m.avg_match_score, RInt(n)), data.match_score), RInt(n))
        tr == IF "workflow_trace" \in DOMAIN data
              THEN Append(m.workflow_traces, data.workflow_trace)
              ELSE m.workflow_traces
    IN  [s0 EXCEPT !.session_metrics =
            [total_analyses |-> n,
             resumes_processed |-> m.resumes_processed + data.resumes_count,
             avg_match_score |-> avg,
             total_skills_identified |-> m.total_skills_identified + data.skills_identified,
             ai_suggestions_generated |-> m.ai_suggestions_generated + data.ai_suggestions,
             workflow_traces |-> IF Len(tr) > MaxTraces THEN LastN(tr, MaxTraces) ELSE tr]]

update_session_metrics(st, data) ==
    LET s0 == InitMetrics(st)
        m  == s0.session_metrics
        n  == m.total_analyses + 1
        avg == RDiv(RAdd(RMul(m.avg_match_score, RInt(n - 1)), data.match_score), RInt(n))
        tr == IF "workflow_trace" \in DOMAIN data
              THEN Append(m.workflow_traces, data.workflow_trace)
              ELSE m.workflow_traces
    IN  [s0 EXCEPT !.session_metrics =
            [total_analyses |-> n,
             resumes_processed |-> m.resumes_processed + data.resumes_count,
             avg_match_score |-> avg,
             total_skills_identified |-> m.total_skills_identified + data.skills_identified,
             ai_suggestions_generated |-> m.ai_suggestions_generated + data.ai_suggestions,
             workflow_traces |-> IF Len(tr) > MaxTraces THEN LastN(tr, MaxTraces) ELSE tr]]

\* one pass of update_skills_database's loop
AddSkill(db, skill) ==
    LET k == Title(Strip(skill))
    IN  IF k = <<>> THEN db
        ELSE [x \in DOMAIN db \cup {k} |->
                IF x = k THEN (IF k \in DOMAIN db THEN db[k] ELSE 0) + 1 ELSE db[x]]

RECURSIVE AddSkills(_, _)
AddSkills(db, skills) ==
    IF skills = <<>> THEN db ELSE AddSkills(AddSkill(db, Head(skills)), Tail(skills))

update_skills_database(st, skills) ==
    LET db0 == IF Has(st, "skills_database") THEN st.skills_database ELSE <<>>
    IN  [st EXCEPT !.present = @ \cup {"skills_database"},
                   !.skills_database = AddSkills(db0, skills)]

----------------------------------------------------------------------------
(* The ranking of uploaded resumes (src/src/scoring.py, src/src/parsing.py) *)

\* uploaded files: what parse_resume_pdf makes of each (c.pdf cannot be parsed);
\* name_key is the place of (resume_data.name or filename) in string order
FileA == [filename |-> "a.pdf", parses |-> TRUE,  name_key |-> 2, skills |-> <<sql, go>>]
FileB == [filename |-> "b.pdf", parses |-> TRUE,  name_key |-> 1, skills |-> <<sql, nodejs>>]
FileC == [filename |-> "c.pdf", parses |-> FALSE, name_key |-> 3, skills |-> <<>>]

ResumePool == {FileA, FileB, FileC}

\* job descriptions: the skills job_parser_agent extracts from each
JobPool == { <<sql, go>>, <<>> }

SortingCriteria == {"Match Score", "Skills Match", "Name"}

\* the batches of files the user uploads in the model
Uploads == { <<FileA>>, <<FileC>>, <<FileA, FileB>>, <<FileB, FileA>>,
             <<FileC, FileB>>, <<FileB, FileC, FileA>> }

\* set(s.lower().strip() for s in skills if s.strip())
SkillSet(skills) == { Strip(Lower(skills[i])) : i \in {j \in 1..Len(skills) : Strip(skills[j]) # <<>>} }

\* the breadth bonus is not capped at 20
calculate_resume_job_match_bonus_uncapped(resume_data, job_skills) ==
    LET rs == SkillSet(resume_data.skills)
        js == SkillSet(job_skills)
        matched == rs \cap js
        total_job == IF Cardinality(js) = 0 THEN 1 ELSE Cardinality(js)
        total_resume == Cardinality(rs)
        skill_match_score == RMul(Rat(Cardinality(matched), total_job), RInt(100))
        bonus == RMul(Rat(total_resume, total_job), RInt(10))
    IN  [skill_match_score |-> RMin(RAdd(skill_match_score, bonus), RInt(100)),
         matched_skills |-> matched,
         missing_skills |-> js \ rs,
         total_job_skills |-> total_job,
         total_resume_skills |-> total_resume,
         skill_overlap_count |-> Cardinality(matched),
         skill_breadth_bonus |-> bonus]

calculate_resume_job_match(resume_data, job_skills) ==
    LET rs == SkillSet(resume_data.skills)
        js == SkillSet(job_skills)
        matched == rs \cap js
        total_job == IF Cardinality(js) = 0 THEN 1 ELSE Cardinality(js)
        total_resume == Cardinality(rs)
        skill_match_score == RMul(Rat(Cardinality(matched), total_job), RInt(100))
        bonus == RMin(RMul(Rat(total_resume, total_job), RInt(10)), RInt(20))
    IN  [skill_match_score |-> RMin(RAdd(skill_match_score, bonus), RInt(100)),
         matched_skills |-> matched,
         missing_skills |-> js \ rs,
         total_job_skills |-> total_job,
         total_resume_skills |-> total_resume,
         skill_overlap_count |-> Cardinality(matched),
         skill_breadth_bonus |-> bonus]

\* parse_multiple_resumes: the files that parse, in upload order
RECURSIVE parse_multiple_resumes(_)
parse_multiple_resumes(files) ==
    IF files = <<>> THEN <<>>
    ELSE (IF Head(files).parses THEN <<Head(files)>> ELSE <<>>)
         \o parse_multiple_resumes(Tail(files))

\* calculate_resume_job_match on every resume and job of the model
MatchTable ==
    [r \in ResumePool, j \in JobPool |-> calculate_resume_job_match(r, j)]

ScoredEntry(resume_data, job_skills) ==
    LET r == MatchTable[resume_data, job_skills]
    IN  [filename |-> resume_data.filename,
         resume_data |-> resume_data,
         match_score |-> r.skill_match_score,
         matched_skills |-> r.matched_skills,
         total_skills |-> r.total_resume_skills,
         total_job_skills |-> r.total_job_skills]

ScoreAll(results, job_skills) ==
    [i \in 1..Len(results) |-> ScoredEntry(results[i], job_skills)]

\* a strictly precedes b under the chosen criterion
Precedes(criterion, a, b) ==
    CASE criterion = "Match Score"  -> ~RLeq(a.match_score, b.match_score)
      [] criterion = "Skills Match" -> Cardinality(a.matched_skills) > Cardinality(b.matched_skills)
      [] criterion = "Name"         -> a.resume_data.name_key < b.resume_data.name_key

\* of two entries with equal keys only the first is kept
RECURSIVE InsertSorted_unique_keys(_, _, _)
InsertSorted_unique_keys(criterion, sorted, x) ==
    IF sorted = <<>> THEN <<x>>
    ELSE IF Precedes(criterion, x, Head(sorted)) THEN <<x>> \o sorted
    ELSE IF ~Precedes(criterion, Head(sorted), x) THEN sorted
    ELSE <<Head(sorted)>> \o InsertSorted_unique_keys(criterion, Tail(sorted), x)

\* list.sort is stable: x goes before the first entry it strictly precedes
RECURSIVE InsertSorted(_, _, _)
InsertSorted(criterion, sorted, x) ==
    IF sorted = <<>> THEN <<x>>
    ELSE IF Precedes(criterion, x, Head(sorted)) THEN <<x>> \o sorted
    ELSE <<Head(sorted)>> \o InsertSorted(criterion, Tail(sorted), x)

RECURSIVE SortRanked(_, _)
SortRanked(criterion, entries) ==
    IF entries = <<>> THEN <<>>
    ELSE InsertSorted(criterion,
                      SortRanked(criterion, SubSeq(entries, 1, Len(entries) - 1)),
                      entries[Len(entries)])

\* scoring.rank_resumes: score in the given order, then sort by match score
rank_resumes(resume_results, job_skills) ==
    SortRanked("Match Score", ScoreAll(resume_results, job_skills))

RECURSIVE AllSkills(_)
AllSkills(entries) ==
    IF entries = <<>> THEN <<>>
    ELSE Head(entries).resume_data.skills \o AllSkills(Tail(entries))

----------------------------------------------------------------------------
(* Pages and handlers of the full application (src/app.py, main) *)

\* create_analytical_dashboard up to its buttons: lazy initialisation of the
\* metrics and of the skills database
DashboardHead(st) ==
    LET s0 == InitMetrics(st)
    IN  IF Has(s0, "skills_database") THEN s0
        ELSE [s0 EXCEPT !.present = @ \cup {"skills_database"},
                        !.skills_database = DemoSkillsDatabase]

\* create_analytical_dashboard after its buttons: the style picker's default
DashboardTail(st) ==
    IF Has(st, "selected_workflow_style") THEN st
    ELSE [st EXCEPT !.present = @ \cup {"selected_workflow_style"},
                    !.selected_workflow_style = "skills_focused"]

\* dynamic_list_input's first lines
BuilderPage(st) ==
    IF Has(st, "certifications_items") THEN st
    ELSE [st EXCEPT !.present = @ \cup {"certifications_items"},
                    !.certifications_items = <<"">>]

\* one run of main() with no button pressed
RenderPage(m, st) ==
    CASE m = "Analytics Dashboard" -> DashboardTail(DashboardHead(st))
      [] m = "Resume Builder"      -> BuilderPage(st)
      [] OTHER                     -> st

ClearAnalyticsData_keeps_skills(st) ==
    [st EXCEPT !.present = @ \cup {"session_metrics"},
               !.session_metrics = ZeroMetrics]

ClearAnalyticsData(st) ==
    [st EXCEPT !.present = @ \cup {"session_metrics", "skills_database"},
               !.session_metrics = ZeroMetrics,
               !.skills_database = <<>>]

\* the style picker's button: the style, and the demo trace when none is held
StylePicked(st, style) ==
    LET s1 == [st EXCEPT !.present = @ \cup {"selected_workflow_style"},
                         !.selected_workflow_style = style]
    IN  IF s1.session_metrics.workflow_traces = <<>>
        THEN [s1 EXCEPT !.session_metrics.workflow_traces = <<DemoTrace>>]
        ELSE s1

\* the names a "from src.agents import ..." finds in src/src/agents.py
AgentsModuleNames ==
    {"annotations", "os", "dataclass", "Any", "Dict", "List", "Optional",
     "EmbeddingService", "ResumeData", "parse_job_description", "parse_resume_pdf",
     "compute_match_score", "top_k_matches", "create_vector_store",
     "create_vector_store_for", "np", "ChatGoogleGenerativeAI", "AgentResult",
     "resume_parser_agent", "job_parser_agent", "content_enhancer_agent",
     "matcher_and_scoring_agent"}

\* the trace the drill-down builds from its four steps
DetailTrace(entry) ==
    [steps |-> <<"Resume Parser", "JobParser", "ContentEnhancer", "MatcherScorer">>,
     subject |-> entry.filename]

\* the "Analyze & Rank Resumes" handler up to its session updates
AnalyzeAndRank(files, job_skills, criterion) ==
    LET results == parse_multiple_resumes(files)
        ranked  == SortRanked(criterion, ScoreAll(results, job_skills))
        avg     == IF ranked = <<>> THEN RInt(0)
                   ELSE RDiv(RSum([i \in 1..Len(ranked) |-> ranked[i].match_score]),
                             RInt(Len(ranked)))
    IN  [results |-> results,
         ranked |-> ranked,
         match_score |-> avg,
         data |-> [resumes_count |-> Len(files),
                   match_score |-> avg,
                   skills_identified |->
                       SumSeq([i \in 1..Len(results) |-> Len(results[i].skills)]),
                   ai_suggestions |-> 0]]

RankingTable ==
    [files \in Uploads, job_skills \in JobPool, criterion \in SortingCriteria |->
        AnalyzeAndRank(files, job_skills, criterion)]

\* the raw skills of the model, and the history of how often each was passed
RawSkills == {sql, SQL_, go, nodejs}

NonePassed == [r \in RawSkills |-> 0]

RECURSIVE NotePassed(_, _)
NotePassed(bag, skills) ==
    IF skills = <<>> THEN bag
    ELSE NotePassed([bag EXCEPT ![Head(skills)] = @ + 1], Tail(skills))

NoRanking == [files |-> <<>>, entries |-> <<>>, job_skills |-> <<>>,
              show_details |-> FALSE, top_n |-> 0]

\* "Show top candidates": a number of 1..100, or "All"
Top(n) == [all |-> FALSE, n |-> n]
All    == [all |-> TRUE, n |-> 0]

\* the "Show detailed analysis" checkbox and the top-candidates selection of
\* a run (index=1, the selection 2, is the default)
DisplayOptions == { <<TRUE, All>>, <<TRUE, Top(1)>>, <<FALSE, Top(2)>> }

top_n(selection, resume_files) ==
    IF selection.all /\ resume_files # <<>> THEN Len(resume_files)
    ELSE IF ~selection.all THEN selection.n ELSE 5

\* display_ranking_results: ranked_resumes[:top_n]
Displayed(ranking) ==
    SubSeq(ranking.entries, 1,
           IF ranking.top_n <= Len(ranking.entries) THEN ranking.top_n
           ELSE Len(ranking.entries))

Did(op, outcome, subject) == [op |-> op, outcome |-> outcome, subject |-> subject]

\* what the user may have typed into the form's required fields
FormInputs ==
    { [name |-> empty, email |-> empty, phone |-> empty],
      [name |-> blank, email |-> mail,  phone |-> tel],
      [name |-> ann,   email |-> empty, phone |-> tel],
      [name |-> ann,   email |-> mail,  phone |-> empty],
      [name |-> ann,   email |-> mail,  phone |-> tel] }

\* the styles the user picks in the model, of the seven of WorkflowStyles
StyleChoices == {"modern", "sankey"}

\* the skills a Resume Builder form yields (comma-split, stripped, non-empty)
BuilderSkillInputs == { <<>>, <<SQL_>>, <<sql, go>>, <<nodejs>> }

\* every interaction reruns the script once
Click == clicks < MaxClicks /\ clicks' = clicks + 1

AppInit ==
    /\ clicks = 0
    /\ mode = "Welcome"
    /\ session_state = FreshSession
    /\ ranked_resumes = NoRanking
    /\ last = Did("start", "shown", "")
    /\ recorded = <<>>
    /\ score_sum = RInt(0)
    /\ score_count = 0
    /\ passed = NonePassed

\* the sidebar radio
SelectMode(m) ==
    /\ Click
    /\ m # mode
    /\ mode' = m
    /\ session_state' = RenderPage(m, session_state)
    /\ ranked_resumes' = NoRanking
    /\ last' = Did("navigate", "shown", "")
    /\ UNCHANGED <<recorded, score_sum, score_count, passed>>

\* "Clear Analytics Data"
ClearAnalytics ==
    /\ Click
    /\ mode = "Analytics Dashboard"
    /\ session_state' = DashboardTail(ClearAnalyticsData(DashboardHead(session_state)))
    /\ last' = Did("clear", "cleared", "")
    /\ recorded' = <<>>
    /\ score_sum' = RInt(0)
    /\ score_count' = 0
    /\ passed' = NonePassed
    /\ UNCHANGED <<mode, ranked_resumes>>

\* a style button of the picker, then st.rerun()
PickStyle(style) ==
    /\ Click
    /\ mode = "Analytics Dashboard"
    /\ style \in Range(WorkflowStyles)
    /\ LET s1 == DashboardHead(session_state)
           s2 == StylePicked(s1, style)
       IN  /\ session_state' = RenderPage(mode, s2)
           /\ recorded' = recorded \o
                  SubSeq(s2.session_metrics.workflow_traces,
                         Len(s1.session_metrics.workflow_traces) + 1,
                         Len(s2.session_metrics.workflow_traces))
    /\ last' = Did("style", "shown", "")
    /\ UNCHANGED <<mode, ranked_resumes, score_sum, score_count, passed>>

\* "Analyze & Rank Resumes"
RunRanking(files, job_skills, criterion, show_details, top_n_selection) ==
    /\ Click
    /\ mode = "Resume Matching"
    /\ LET run == RankingTable[files, job_skills, criterion]
       IN  IF run.results = <<>>
           THEN /\ last' = Did("rank", "no resume parsed", "")
                /\ ranked_resumes' = NoRanking
                /\ UNCHANGED <<session_state, score_sum, score_count, passed>>
           ELSE /\ session_state' =
                      update_skills_database(
                          update_session_metrics(session_state, run.data),
                          AllSkills(run.ranked))
                /\ ranked_resumes' = [files |-> files,
                                      entries |-> run.ranked, job_skills |-> job_skills,
                                      show_details |-> show_details,
                                      top_n |-> top_n(top_n_selection, files)]
                /\ last' = Did("rank", "ranked", "")
                /\ score_sum' = RAdd(score_sum, run.match_score)
                /\ score_count' = score_count + 1
                /\ passed' = NotePassed(passed, AllSkills(run.ranked))
    /\ UNCHANGED <<mode, recorded>>

\* "Generate Detailed Analysis" for the selected entry of the displayed ranking.
\* The handler's first statement imports ResumeParserAgent from src.agents; the
\* ImportError is caught by the handler's except clause.
DetailDrillDown(selected) ==
    /\ Click
    /\ mode = "Resume Matching"
    /\ ranked_resumes.show_details
    /\ selected \in 1..Len(Displayed(ranked_resumes))
    /\ LET entry == ranked_resumes.entries[selected]
           trace == DetailTrace(entry)
           s0    == InitMetrics(session_state)
       IN  IF "ResumeParserAgent" \in AgentsModuleNames
           THEN /\ session_state' =
                      [s0 EXCEPT !.session_metrics.workflow_traces = Append(@, trace)]
                /\ recorded' = Append(recorded, trace)
                /\ last' = Did("detail", "trace shown", entry.filename)
           ELSE /\ last' = Did("detail", "Detailed analysis failed", entry.filename)
                /\ UNCHANGED <<session_state, recorded>>
    /\ UNCHANGED <<mode, ranked_resumes, score_sum, score_count, passed>>

\* typing into the Resume Builder form
EditForm(form) ==
    /\ Click
    /\ mode = "Resume Builder"
    /\ session_state.form # form
    /\ session_state' = [session_state EXCEPT !.form = form]
    /\ last' = Did("edit", "shown", "")
    /\ UNCHANGED <<mode, ranked_resumes, recorded, score_sum, score_count, passed>>

\* dynamic_list_input's "Add" button, then st.rerun()
AddItem ==
    /\ Click
    /\ mode = "Resume Builder"
    /\ Len(session_state.certifications_items) < MaxItems
    /\ session_state' = RenderPage(mode,
           [session_state EXCEPT !.certifications_items = Append(@, "")])
    /\ last' = Did("add item", "shown", "")
    /\ UNCHANGED <<mode, ranked_resumes, recorded, score_sum, score_count, passed>>

\* dynamic_list_input's "Remove" button of entry i, then st.rerun()
RemoveItem(i) ==
    /\ Click
    /\ mode = "Resume Builder"
    /\ i \in 1..Len(session_state.certifications_items)
    /\ session_state' = RenderPage(mode,
           [session_state EXCEPT !.certifications_items = RemoveAt(@, i)])
    /\ last' = Did("remove item", "shown", "")
    /\ UNCHANGED <<mode, ranked_resumes, recorded, score_sum, score_count, passed>>

\* "Generate Professional Resume"; pdf_made: whether generate_ats_resume_pdf_safe
\* returned a buffer
SubmitBuilder(skills, pdf_made) ==
    /\ Click
    /\ mode = "Resume Builder"
    /\ LET f == session_state.form
           data == [resumes_count |-> 1,
                    match_score |-> RInt(0),
                    skills_identified |-> Len(skills),
                    ai_suggestions |-> IF ai_env THEN 3 ELSE 0]
           s1 == update_session_metrics(session_state, data)
       IN  IF Strip(f.name) = <<>> \/ Strip(f.email) = <<>> \/ Strip(f.phone) = <<>>
           THEN /\ last' = Did("submit", "required field missing", "")
                /\ UNCHANGED <<session_state, score_sum, score_count, passed>>
           ELSE /\ session_state' =
                      IF skills # <<>> THEN update_skills_database(s1, skills) ELSE s1
                /\ score_sum' = RAdd(score_sum, RInt(0))
                /\ score_count' = score_count + 1
                /\ passed' = NotePassed(passed, skills)
                /\ last' = Did("submit",
                               IF pdf_made THEN "resume generated" ELSE "pdf failed",
                               "")
    /\ UNCHANGED <<mode, ranked_resumes, recorded>>

----------------------------------------------------------------------------
(* The subsystems that are not running *)

NoChroma    == [resume_snippets |-> <<>>, resumes |-> 0, jobs |-> 0, matches |-> 0]
NoAgentCall == [outcome |-> "idle", backend |-> "", resume |-> <<>>, error |-> "",
                outputs |-> {}, scoring |-> <<>>, top_snippets_by |-> "",
                top_snippets |-> <<>>]
NoPdfEnv    == [weasyprint |-> FALSE, reportlab |-> FALSE]
NoResult    == [outcome |-> "idle", value |-> "", by |-> "", empty |-> TRUE, error |-> ""]
NoPdfCall   == [fn |-> "", data |-> "dict", wp_raises |-> FALSE, rl_raises |-> FALSE,
                result |-> NoResult]
NoAiCall    == [method |-> "", argument |-> <<>>, response |-> "", outcome |-> "idle",
                kind |-> "", text |-> <<>>, items |-> <<>>]
NoLibCall   == [fn |-> ""]
NoProto     == [created |-> 0, runs |-> 0, outcome |-> "idle", path |-> 0,
                removal_attempted |-> FALSE, ran |-> <<>>,
                form |-> [name |-> <<>>, email |-> <<>>, phone |-> <<>>],
                built |-> [invoked |-> FALSE, name |-> <<>>, email |-> <<>>]]

AppIdle   == AppInit
Sessions    == {"one", "two"}
NoSessions  == [s \in Sessions |->
                   [pc |-> "idle", calls |-> 0, texts |-> <<>>, first |-> 0, last |-> 0,
                    ids |-> <<>>, outcome |-> "", assigned |-> {}]]
StoreIdle == stored_docs = <<>> /\ sessions = NoSessions
AgentIdle == chroma = NoChroma /\ agent_call = NoAgentCall /\ StoreIdle
PdfIdle   == pdf_env = NoPdfEnv /\ pdf_call = NoPdfCall
AiIdle    == ai_call = NoAiCall
ProtoIdle == tmp_files = {} /\ proto = NoProto
LibIdle   == lib_call = NoLibCall

----------------------------------------------------------------------------
(* The full application: one Streamlit session *)

Init ==
    /\ AppInit
    /\ ai_env \in BOOLEAN
    /\ AgentIdle /\ PdfIdle /\ AiIdle /\ ProtoIdle /\ LibIdle

Next ==
    \/ \E m \in Modes : SelectMode(m) /\ UNCHANGED <<agentVars, pdfVars, aiVars, protoVars, libVars>>
    \/ ClearAnalytics /\ UNCHANGED <<agentVars, pdfVars, aiVars, protoVars, libVars>>
    \/ \E style \in StyleChoices : PickStyle(style) /\ UNCHANGED <<agentVars, pdfVars, aiVars, protoVars, libVars>>
    \/ \E files \in Uploads, job \in JobPool, c \in SortingCriteria,
          d \in DisplayOptions :
           RunRanking(files, job, c, d[1], d[2]) /\ UNCHANGED <<agentVars, pdfVars, aiVars, protoVars, libVars>>
    \/ \E i \in 1..Cardinality(ResumePool) : DetailDrillDown(i) /\ UNCHANGED <<agentVars, pdfVars, aiVars, protoVars, libVars>>
    \/ \E form \in FormInputs : EditForm(form) /\ UNCHANGED <<agentVars, pdfVars, aiVars, protoVars, libVars>>
    \/ AddItem /\ UNCHANGED <<agentVars, pdfVars, aiVars, protoVars, libVars>>
    \/ \E i \in 1..MaxItems : RemoveItem(i) /\ UNCHANGED <<agentVars, pdfVars, aiVars, protoVars, libVars>>
    \/ \E sk \in BuilderSkillInputs, ok \in BOOLEAN : SubmitBuilder(sk, ok) /\ UNCHANGED <<agentVars, pdfVars, aiVars, protoVars, libVars>>

Spec == Init /\ [][Next]_vars

----------------------------------------------------------------------------
(* Properties of the session state *)

Metrics == session_state.session_metrics
Traces  == session_state.session_metrics.workflow_traces

NumberedTrace(i) == [steps |-> <<>>, subject |-> i]

Recording(score) ==
    [resumes_count |-> 0, match_score |-> RInt(score), skills_identified |-> 0,
     ai_suggestions |-> 0]

\* update_session_metrics called with a trace while MaxTraces traces are held
RecordWhenFull ==
    LET held == [InitMetrics(session_state) EXCEPT
                    !.session_metrics.workflow_traces =
                        [i \in 1..MaxTraces |-> NumberedTrace(i)]]
        data == [resumes_count |-> 0, match_score |-> RInt(0), skills_identified |-> 0,
                 ai_suggestions |-> 0, workflow_trace |-> NumberedTrace(MaxTraces + 1)]
    IN  update_session_metrics(held, data).session_metrics.workflow_traces

C2_DrillDownRecordsTrace ==
    last.op = "detail" =>
        \E i \in 1..Len(Traces) :
            /\ Traces[i].subject = last.subject
            /\ Len(Traces[i].steps) = 4

\* C8: avg_match_score is the arithmetic mean of the match_score values
\* recorded since the session started or was last cleared, total_analyses
\* being their number; recording 80, 90, 100 from (0, 0) gives 90.
C8_AverageIsMean ==
    /\ Metrics.total_analyses = score_count
    /\ RMul(Metrics.avg_match_score, RInt(score_count)) = score_sum
    /\ score_count = 0 => Metrics.avg_match_score = RInt(0)
    /\ update_session_metrics(
           update_session_metrics(
               update_session_metrics(FreshSession, Recording(80)),
               Recording(90)),
           Recording(100)).session_metrics.avg_match_score = RInt(90)

C8_Witness ==
    /\ Metrics.total_analyses = 3
    /\ Metrics.avg_match_score[2] # 1

RECURSIVE SumOver(_, _)
SumOver(S, bag) ==
    IF S = {} THEN 0
    ELSE LET x == CHOOSE y \in S : TRUE IN bag[x] + SumOver(S \ {x}, bag)

\* how often a skill that title-cases to k was passed
TimesPassed(k) == SumOver({r \in RawSkills : Title(Strip(r)) = k}, passed)

\* C9: every key of skills_database is title-cased and its count is the number
\* of times that skill was passed to update_skills_database since the session
\* started or was last cleared.
C9_SkillsDatabaseIsObservedFrequency ==
    \A k \in DOMAIN session_state.skills_database :
        /\ Title(k) = k
        /\ session_state.skills_database[k] = TimesPassed(k)

AnalyticsKeys == {"session_metrics", "skills_database"}

\* C10: "Clear Analytics Data" zeroes the session metrics and empties the
\* skills database, and leaves the selected style, the dynamic form lists and
\* the form text as they were.
C10_ClearResetsOnlyAnalytics ==
    [][ClearAnalytics =>
          /\ AnalyticsKeys \subseteq session_state'.present
          /\ session_state'.session_metrics = ZeroMetrics
          /\ session_state'.skills_database = <<>>
          /\ session_state'.present \ AnalyticsKeys = session_state.present \ AnalyticsKeys
          /\ session_state'.selected_workflow_style = session_state.selected_workflow_style
          /\ session_state'.certifications_items = session_state.certifications_items
          /\ session_state'.form = session_state.form
          /\ mode' = mode]_vars

C10_Witness ==
    /\ last.op = "clear"
    /\ session_state.session_metrics = ZeroMetrics
    /\ session_state.skills_database = <<>>
    /\ session_state.form.name = ann
    /\ session_state.certifications_items # <<>>

\* the two lists hold the same entries the same number of times
SameEntries(a, b) ==
    /\ Len(a) = Len(b)
    /\ \A x \in Range(a) \cup Range(b) :
           Cardinality({i \in 1..Len(a) : a[i] = x})
               = Cardinality({i \in 1..Len(b) : b[i] = x})

\* no entry comes after one it strictly precedes under the criterion
SortedBy(criterion, entries) ==
    \A i, j \in 1..Len(entries) :
        i < j => ~Precedes(criterion, entries[j], entries[i])

\* the results of the last run, scored in upload order: one entry per resume
\* that parsed, with its filename and the match computed for it
ScoredInUploadOrder ==
    LET parsed == SelectSeq(ranked_resumes.files, LAMBDA f : f.parses)
    IN  [i \in 1..Len(parsed) |->
            LET match == MatchTable[parsed[i], ranked_resumes.job_skills]
            IN  [filename |-> parsed[i].filename,
                 resume_data |-> parsed[i],
                 match_score |-> match.skill_match_score,
                 matched_skills |-> match.matched_skills,
                 total_skills |-> match.total_resume_skills,
                 total_job_skills |-> match.total_job_skills]]

Ranked == last.op = "rank" /\ last.outcome = "ranked"

\* C16 as stated: the displayed list is a permutation of the scored results,
\* one entry per successfully parsed resume.
C16_DisplayedIsPermutation ==
    Ranked => SameEntries(Displayed(ranked_resumes), ScoredInUploadOrder)

\* C16: the sorted list is a permutation of the results scored in upload
\* order, one entry per successfully parsed resume with the filename, score
\* and matched skills computed before sorting, in the order of one of the
\* three criteria; the displayed list is its first top_n entries, all of
\* them when top_n is not less than their number. rank_resumes permutes
\* the scored results likewise.
C16_SortedIsPermutation ==
    Ranked =>
        /\ SameEntries(ranked_resumes.entries, ScoredInUploadOrder)
        /\ \E criterion \in SortingCriteria : SortedBy(criterion, ranked_resumes.entries)
        /\ \A i \in 1..Len(Displayed(ranked_resumes)) :
               Displayed(ranked_resumes)[i] = ranked_resumes.entries[i]
        /\ Len(Displayed(ranked_resumes)) = ranked_resumes.top_n
               \/ Len(Displayed(ranked_resumes)) = Len(ranked_resumes.entries)
        /\ SameEntries(rank_resumes(parse_multiple_resumes(ranked_resumes.files),
                                    ranked_resumes.job_skills),
                       ScoredInUploadOrder)

\* two resumes were ranked in another order than uploaded and only the
\* first of them is displayed
C16_Witness ==
    /\ Ranked
    /\ Len(ranked_resumes.entries) = 2
    /\ ranked_resumes.entries # ScoredInUploadOrder
    /\ ranked_resumes.top_n = 1

----------------------------------------------------------------------------
(* Scoring (src/src/scoring.py). Vectors are tuples of integers whose norms
   are integers, so that norm() is exact. *)

dot(a, b) ==
    LET n == IF Len(a) <= Len(b) THEN Len(a) ELSE Len(b)
    IN  SumSeq([i \in 1..n |-> a[i] * b[i]])

\* x ** 0.5 for a perfect square
Sqrt(x) == CHOOSE k \in 0..x : k * k = x

norm(a) == Sqrt(dot(a, a))

\* a float division: ZeroDivisionError when the divisor is 0.0
Divide(n, d) ==
    IF d = 0 THEN [raised |-> TRUE, value |-> RInt(0)]
    ELSE [raised |-> FALSE, value |-> Rat(n, d)]

\* the denominator is used as it is
cosine_similarity_unfloored(a, b) == Divide(dot(a, b), norm(a) * norm(b))

cosine_similarity(a, b) ==
    LET denom == IF norm(a) * norm(b) = 0 THEN 1 ELSE norm(a) * norm(b)
    IN  Divide(dot(a, b), denom)

ScoreRaised ==
    [outcome |-> "raised", similarity |-> RInt(0), jaccard |-> RInt(0),
     score |-> RInt(0), confidence |-> RInt(0), missing_skills |-> {},
     matched_skills |-> {}, skill_overlap |-> 0, total_required_skills |-> 0,
     total_resume_skills |-> 0, explanation |-> <<>>]

compute_match_score(resume_vec, job_vec, resume_skills, job_skills) ==
    LET cos == cosine_similarity(resume_vec, job_vec)
        sim == cos.value
        rs  == SkillSet(resume_skills)
        js  == SkillSet(job_skills)
        skill_overlap == Cardinality(rs \cap js)
        skill_union   == IF Cardinality(rs \cup js) = 0 THEN 1
                         ELSE Cardinality(rs \cup js)
        jaccard   == Rat(skill_overlap, skill_union)
        score     == RAdd(RMul(Rat(7, 10), sim), RMul(Rat(3, 10), jaccard))
        score_pct == RMul(RMax(RInt(0), RMin(RInt(1), score)), RInt(100))
    IN  IF cos.raised THEN ScoreRaised
        ELSE [outcome |-> "returned",
              similarity |-> sim,
              jaccard |-> jaccard,
              score |-> score_pct,
              confidence |-> RAdd(Rat(1, 2), RMul(Rat(1, 2), RMin(sim, RInt(1)))),
              missing_skills |-> js \ rs,
              matched_skills |-> rs \cap js,
              skill_overlap |-> skill_overlap,
              total_required_skills |-> Cardinality(js),
              total_resume_skills |-> Cardinality(rs),
              \* the values the explanation text is formatted from
              explanation |-> <<sim, skill_overlap, Cardinality(js), score_pct>>]

----------------------------------------------------------------------------
(* The matcher and scoring agent over the persistent Chroma collections *)

MaxDocs == 2

MinSnippetLen   == 20
MaxSnippets     == 20
WholeTextPrefix == 300
TopK            == 5

Min(a, b) == IF a <= b THEN a ELSE b

\* a resume: its text as the lengths of its stripped lines (a line stands for
\* its text, and no two lines of the model are alike), the vector the
\* embedding backend gives the text, and the skills parsed from it
ResumeA == [lines |-> <<27, 5, 30>>, vec |-> <<3, 4>>, skills |-> <<sql, go>>]
ResumeB == [lines |-> <<50>>, vec |-> <<4, 3>>, skills |-> <<sql_pad, nodejs>>]
ResumeC == [lines |-> <<3, 7>>, vec |-> <<0, 0>>, skills |-> <<>>]
ResumeE == [lines |-> <<21, 22, 23, 24, 25, 26>>, vec |-> <<-3, -4>>, skills |-> <<go>>]

Resumes     == {ResumeA, ResumeB, ResumeC, ResumeE}
ResumeTexts == {r.lines : r \in Resumes}

\* the job of the model
JobVec    == <<3, 4>>
JobSkills == <<sql, go>>

\* the cosine similarity of a snippet's vector to the job vector, different
\* for different snippets
Similarities == [snippet \in 0..50 |-> Rat((snippet * 13) % 17, 17)]
SnippetSimilarity(snippet) == Similarities[snippet]

TextLen(lines) == SumSeq(lines) + (Len(lines) - 1)

IsLongLine(n) == n > MinSnippetLen

resume_snippets(lines) ==
    LET long == SelectSeq(lines, IsLongLine)
    IN  IF long = <<>>
        THEN << Min(TextLen(lines), WholeTextPrefix) >>
        ELSE SubSeq(long, 1, Min(Len(long), MaxSnippets))

\* EmbeddingService.__init__: the hosted backend needs a key, the import and
\* a constructor that does not raise; otherwise the local hashing backend
EmbeddingService(api_key, importable, constructed) ==
    IF api_key /\ importable /\ constructed
    THEN "GoogleGenerativeAIEmbeddings"
    ELSE "_LocalHashingEmbeddings"

BackendSetups == { <<TRUE, TRUE, TRUE>>, <<TRUE, TRUE, FALSE>>,
                   <<TRUE, FALSE, TRUE>>, <<FALSE, TRUE, TRUE>> }

\* EmbeddingService.embed_texts: the backend's embed_documents, uncaught
embed_texts(backend, call_fails) ==
    IF backend = "GoogleGenerativeAIEmbeddings" /\ call_fails THEN "raises" ELSE "vectors"

EmbedFaults   == {0, 1, 2}
StoreFaults   == {"none", "create_vector_store", "add_texts", "similarity_search"}
PersistFaults == {"none", "create_vector_store_for", "add_resumes", "add_jobs", "add_matches"}

\* what fails during one call: <<embed call, snippet-store operation,
\* persistence operation>>; after a failed embed call nothing else runs
FaultPlans ==
    {<<0, sf, pf>> : sf \in StoreFaults, pf \in PersistFaults}
        \cup {<<ef, "none", "none">> : ef \in EmbedFaults}

AgentResultKeys ==
    {"score", "confidence", "similarity", "missing_skills", "explanation", "top_snippets"}

\* list.sort(key=similarity, reverse=True): stable, descending
RECURSIVE InsertBySimilarity(_, _)
InsertBySimilarity(sorted, x) ==
    IF sorted = <<>> THEN <<x>>
    ELSE IF RLeq(SnippetSimilarity(x), SnippetSimilarity(Head(sorted)))
         THEN <<Head(sorted)>> \o InsertBySimilarity(Tail(sorted), x)
         ELSE <<x>> \o sorted

RECURSIVE SortBySimilarity(_)
SortBySimilarity(texts) ==
    IF texts = <<>> THEN <<>>
    ELSE InsertBySimilarity(SortBySimilarity(SubSeq(texts, 1, Len(texts) - 1)),
                            texts[Len(texts)])

top_k_matches(corpus_texts, k) ==
    SubSeq(SortBySimilarity(corpus_texts), 1, Min(k, Len(corpus_texts)))

\* ChromaVectorStore.similarity_search: the nearest documents of the whole
\* collection
similarity_search(documents, k) ==
    SubSeq(SortBySimilarity(documents), 1,
           Min(IF k < 1 THEN 1 ELSE k, Len(documents)))

\* the snippet collection after lines 109-118
SnippetsStored(db, snippets, store_fault) ==
    IF store_fault \in {"create_vector_store", "add_texts"}
    THEN db
    ELSE [db EXCEPT !.resume_snippets = @ \o snippets]

\* the resumes, jobs and matches collections after lines 122-145
Persisted(db, persist_fault) ==
    CASE persist_fault \in {"create_vector_store_for", "add_resumes"} -> db
      [] persist_fault = "add_jobs"    -> [db EXCEPT !.resumes = @ + 1]
      [] persist_fault = "add_matches" -> [db EXCEPT !.resumes = @ + 1, !.jobs = @ + 1]
      [] OTHER -> [db EXCEPT !.resumes = @ + 1, !.jobs = @ + 1, !.matches = @ + 1]

RaisedCall(backend, lines) ==
    [outcome |-> "raised", backend |-> backend, resume |-> lines,
     error |-> "embed_documents", outputs |-> {}, scoring |-> <<>>,
     top_snippets_by |-> "", top_snippets |-> <<>>]

\* line 147: the scoring of each resume of the model against the job
Scoring ==
    [resume \in Resumes |->
        compute_match_score(resume.vec, JobVec, resume.skills, JobSkills)]

\* an exception of a persistence write leaves the function
matcher_and_scoring_agent_unguarded(db, resume, backend, embed_fault, store_fault, persist_fault) ==
    LET stored == SnippetsStored(db, resume_snippets(resume.lines), store_fault)
    IN  IF persist_fault # "none" \/ embed_texts(backend, embed_fault # 0) = "raises"
        THEN [db |-> Persisted(stored, persist_fault),
              call |-> RaisedCall(backend, resume.lines)]
        ELSE [db |-> Persisted(stored, persist_fault),
              call |-> [outcome |-> "returned", backend |-> backend,
                        resume |-> resume.lines, error |-> "",
                        outputs |-> AgentResultKeys,
                        scoring |-> Scoring[resume],
                        top_snippets_by |-> "top_k_matches",
                        top_snippets |-> top_k_matches(resume_snippets(resume.lines),
                                                       TopK)]]

matcher_and_scoring_agent(db, resume, backend, embed_fault, store_fault, persist_fault) ==
    LET snippets == resume_snippets(resume.lines)
        stored   == SnippetsStored(db, snippets, store_fault)
    IN  IF embed_texts(backend, embed_fault = 1) = "raises"
        THEN [db |-> db, call |-> RaisedCall(backend, resume.lines)]
        ELSE IF embed_texts(backend, embed_fault = 2) = "raises"
        THEN [db |-> db, call |-> RaisedCall(backend, resume.lines)]
        ELSE [db   |-> Persisted(stored, persist_fault),
              call |-> [outcome |-> "returned", backend |-> backend,
                        resume |-> resume.lines, error |-> "",
                        outputs |-> AgentResultKeys,
                        scoring |-> Scoring[resume],
                        top_snippets_by |->
                            IF store_fault = "none" THEN "similarity_search"
                            ELSE "top_k_matches",
                        top_snippets |->
                            IF store_fault = "none"
                            THEN similarity_search(stored.resume_snippets, TopK)
                            ELSE top_k_matches(snippets, TopK)]]

AgentInit ==
    /\ AppIdle /\ ai_env = FALSE /\ PdfIdle /\ AiIdle /\ ProtoIdle /\ LibIdle
    /\ chroma = NoChroma
    /\ agent_call = NoAgentCall
    /\ StoreIdle

MatchAndScore(resume, setup, embed_fault, store_fault, persist_fault) ==
    LET backend == EmbeddingService(setup[1], setup[2], setup[3])
        done    == matcher_and_scoring_agent(chroma, resume, backend, embed_fault,
                                             store_fault, persist_fault)
    IN  /\ Len(chroma.resume_snippets) < MaxDocs
        /\ chroma.resumes < MaxDocs
        /\ chroma' = done.db
        /\ agent_call' = done.call
        /\ UNCHANGED <<stored_docs, sessions>>

NextAgent ==
    \/ \E resume \in Resumes, setup \in BackendSetups, plan \in FaultPlans :
           MatchAndScore(resume, setup, plan[1], plan[2], plan[3])
               /\ UNCHANGED <<appVars, pdfVars, aiVars, protoVars, libVars>>

SpecAgent == AgentInit /\ [][NextAgent]_vars

\* C3: every call of matcher_and_scoring_agent returns an AgentResult with the
\* six outputs, whatever embed call or vector-store operation fails; no
\* exception reaches the caller.
C3_MatcherNeverRaises ==
    agent_call.outcome # "idle" =>
        /\ agent_call.outcome = "returned"
        /\ agent_call.outputs = AgentResultKeys

Backends == {EmbeddingService(setup[1], setup[2], setup[3]) : setup \in BackendSetups}

ResumeOf(lines) == CHOOSE r \in Resumes : r.lines = lines

\* C12: the scoring a call returns (score, confidence, similarity,
\* missing_skills, explanation) is compute_match_score of the call's vectors
\* and skills, and from every reachable content of the collections a call
\* whose writes to 'resumes', 'jobs' or 'matches' fail at any point returns
\* as the call whose writes all succeed does, with the same scoring: no
\* exception of those writes reaches the caller.
C12_ScoringIndependentOfPersistence ==
    /\ agent_call.outcome = "returned" =>
           LET resume == ResumeOf(agent_call.resume)
           IN  agent_call.scoring =
                   compute_match_score(resume.vec, JobVec, resume.skills, JobSkills)
    /\ \A resume \in Resumes, backend \in Backends,
          sf \in StoreFaults, pf \in PersistFaults :
           LET all_written == matcher_and_scoring_agent(chroma, resume, backend,
                                                        0, sf, "none").call
               faulty      == matcher_and_scoring_agent(chroma, resume, backend,
                                                        0, sf, pf).call
           IN  /\ faulty.outcome = all_written.outcome
               /\ faulty.scoring = all_written.scoring

\* a call returned its scoring although the write to 'jobs' had failed after
\* the write to 'resumes' succeeded
C12_Witness ==
    /\ agent_call.outcome = "returned"
    /\ agent_call.scoring.outcome = "returned"
    /\ chroma.resumes = 1
    /\ chroma.jobs = 0
    /\ chroma.matches = 0

\* C17: after any sequence of matcher calls, the top_snippets of a returned
\* call has at most five entries, every entry is one of the snippets of the
\* resume passed to that call, and the entries are in descending order of
\* similarity to the job vector.
C17_TopSnippetsOfOwnResume ==
    agent_call.outcome = "returned" =>
        LET own == resume_snippets(agent_call.resume)
            top == agent_call.top_snippets
        IN  /\ Len(top) <= TopK
            /\ \A i \in 1..Len(top) : \E j \in 1..Len(own) : top[i] = own[j]
            /\ \A i \in 1..(Len(top) - 1) :
                   RLeq(SnippetSimilarity(top[i + 1]), SnippetSimilarity(top[i]))

----------------------------------------------------------------------------
(* PDF generation: WeasyPrint (HTML) first, ReportLab second *)

PdfEnvs == [weasyprint : BOOLEAN, reportlab : BOOLEAN]

\* what a caller passes as the resume data
ResumeDataKinds == {"dict", "None", "list"}

Rendered(value, by) ==
    [outcome |-> "returned", value |-> value, by |-> by, empty |-> FALSE, error |-> ""]

ReturnedNone ==
    [outcome |-> "returned", value |-> "None", by |-> "", empty |-> TRUE, error |-> ""]

Raised(error) ==
    [outcome |-> "raised", value |-> "", by |-> "", empty |-> TRUE, error |-> error]

\* a WeasyPrint failure is not caught but raised to the caller
generate_pdf_report_no_fallback(env, wp_raises, rl_raises) ==
    IF env.weasyprint
    THEN IF wp_raises THEN Raised("weasyprint error") ELSE Rendered("bytes", "weasyprint")
    ELSE IF ~env.reportlab THEN Raised("ImportError")
    ELSE IF rl_raises THEN Raised("reportlab error")
    ELSE Rendered("bytes", "reportlab")

generate_pdf_report(env, wp_raises, rl_raises) ==
    IF env.weasyprint /\ ~wp_raises THEN Rendered("bytes", "weasyprint")
    ELSE IF ~env.reportlab THEN Raised("ImportError")
    ELSE IF rl_raises THEN Raised("reportlab error")
    ELSE Rendered("bytes", "reportlab")

\* pdf_diagnostic.generate_pdf_report_safe
diagnostic_generate_pdf_report_safe(env, wp_raises, rl_raises) ==
    IF ~env.weasyprint /\ ~env.reportlab THEN Raised("ImportError")
    ELSE IF env.weasyprint /\ ~wp_raises THEN Rendered("bytes", "weasyprint")
    ELSE IF env.weasyprint /\ ~env.reportlab THEN Raised("weasyprint error")
    ELSE IF rl_raises THEN Raised("reportlab error")
    ELSE Rendered("bytes", "reportlab")

\* after the WeasyPrint branch the function only prints and ends
generate_ats_resume_pdf(env, data, wp_raises) ==
    IF data # "dict" THEN Raised("AttributeError")
    ELSE IF env.weasyprint /\ ~wp_raises THEN Rendered("bytes", "weasyprint")
    ELSE ReturnedNone

generate_ats_resume_pdf_safe(env, data, rl_raises) ==
    IF data # "dict" THEN ReturnedNone
    ELSE IF ~env.reportlab THEN ReturnedNone
    ELSE IF rl_raises THEN ReturnedNone
    ELSE Rendered("buffer", "reportlab")

PdfInit ==
    /\ AppIdle /\ ai_env = FALSE /\ AgentIdle /\ AiIdle /\ ProtoIdle /\ LibIdle
    /\ pdf_env \in PdfEnvs
    /\ pdf_call = NoPdfCall

PdfCalled(fn, data, wp_raises, rl_raises, result) ==
    /\ pdf_call' = [fn |-> fn, data |-> data, wp_raises |-> wp_raises,
                    rl_raises |-> rl_raises, result |-> result]
    /\ UNCHANGED pdf_env

GeneratePdfReport(wp_raises, rl_raises) ==
    PdfCalled("generate_pdf_report", "dict", wp_raises, rl_raises,
              generate_pdf_report(pdf_env, wp_raises, rl_raises))

DiagnosticGeneratePdfReport(wp_raises, rl_raises) ==
    PdfCalled("pdf_diagnostic.generate_pdf_report_safe", "dict", wp_raises, rl_raises,
              diagnostic_generate_pdf_report_safe(pdf_env, wp_raises, rl_raises))

GenerateAtsResumePdf(data, wp_raises, rl_raises) ==
    PdfCalled("generate_ats_resume_pdf", data, wp_raises, rl_raises,
              generate_ats_resume_pdf(pdf_env, data, wp_raises))

GenerateAtsResumePdfSafe(data, wp_raises, rl_raises) ==
    PdfCalled("generate_ats_resume_pdf_safe", data, wp_raises, rl_raises,
              generate_ats_resume_pdf_safe(pdf_env, data, rl_raises))

NextPdf ==
    \/ \E w \in BOOLEAN, r \in BOOLEAN :
           GeneratePdfReport(w, r) /\ UNCHANGED <<appVars, agentVars, aiVars, protoVars, libVars>>
    \/ \E w \in BOOLEAN, r \in BOOLEAN :
           DiagnosticGeneratePdfReport(w, r)
               /\ UNCHANGED <<appVars, agentVars, aiVars, protoVars, libVars>>
    \/ \E d \in ResumeDataKinds, w \in BOOLEAN, r \in BOOLEAN :
           GenerateAtsResumePdf(d, w, r)
               /\ UNCHANGED <<appVars, agentVars, aiVars, protoVars, libVars>>
    \/ \E d \in ResumeDataKinds, w \in BOOLEAN, r \in BOOLEAN :
           GenerateAtsResumePdfSafe(d, w, r)
               /\ UNCHANGED <<appVars, agentVars, aiVars, protoVars, libVars>>

SpecPdf == PdfInit /\ [][NextPdf]_vars

ReportFns == {"generate_pdf_report", "pdf_diagnostic.generate_pdf_report_safe"}
ResumeFns == {"generate_ats_resume_pdf", "generate_ats_resume_pdf_safe"}

\* a strategy works in a call when it is importable and does not raise
WeasyPrintWorks == pdf_env.weasyprint /\ ~pdf_call.wp_raises
ReportLabWorks  == pdf_env.reportlab /\ ~pdf_call.rl_raises

\* C4: a match-report call whose HTML renderer is unavailable or raises
\* returns non-empty PDF bytes from ReportLab when ReportLab works; every
\* returned value is non-empty bytes; and the call raises only when no
\* strategy works, with the "neither available" ImportError when none is
\* importable.
C4_ReportFallsBack ==
    pdf_call.fn \in ReportFns =>
        /\ (~WeasyPrintWorks /\ ReportLabWorks) =>
               pdf_call.result = Rendered("bytes", "reportlab")
        /\ WeasyPrintWorks => pdf_call.result = Rendered("bytes", "weasyprint")
        /\ pdf_call.result.outcome = "returned" =>
               pdf_call.result.value = "bytes" /\ ~pdf_call.result.empty
        /\ pdf_call.result.outcome = "raised" => ~WeasyPrintWorks /\ ~ReportLabWorks
        /\ (~pdf_env.weasyprint /\ ~pdf_env.reportlab) =>
               pdf_call.result = Raised("ImportError")

C4_Witness ==
    /\ pdf_call.fn = "generate_pdf_report"
    /\ pdf_env.weasyprint /\ pdf_call.wp_raises
    /\ pdf_call.result = Rendered("bytes", "reportlab")

\* C5: a resume-PDF call returns non-empty PDF content whenever WeasyPrint or
\* ReportLab works for well-formed data, and fails with an error, not None,
\* when neither backend is importable.
C5_ResumePdfFallsBack ==
    (pdf_call.fn \in ResumeFns /\ pdf_call.data = "dict") =>
        /\ (WeasyPrintWorks \/ ReportLabWorks) =>
               pdf_call.result.outcome = "returned" /\ ~pdf_call.result.empty
        /\ (~pdf_env.weasyprint /\ ~pdf_env.reportlab) =>
               pdf_call.result.outcome = "raised"

----------------------------------------------------------------------------
(* AIContentGenerator; ai_env is is_available(): a credential was configured.
   A text is a tuple of words and whitespace characters. *)

ServiceNotAvailableWithHint ==
    <<"AI service not available. Please add your GEMINI_API_KEY to use AI features.">>
ServiceNotAvailable == <<"AI service not available.">>
ErrorGenerating     == <<"Error generating content: ", "quota exceeded">>

\* what the hosted model answers; "raises" is a failed request
ModelResponses ==
    [improved |-> <<" ", "Led", " ", "a", " ", "team", "\n">>,
     listing  |-> <<"React", " ", "\n", " ", "\n", "SQL", "\n">>,
     nothing  |-> <<" ", "\n">>]
ModelBehaviours == DOMAIN ModelResponses \cup {"raises"}

ArgumentTexts == { <<>>, <<"led", " ", "team">>, <<" ", "SQL", " ">>, <<"AI">> }

RECURSIVE SplitLines(_)
\* str.split('\n')
SplitLines(t) ==
    IF \A i \in 1..Len(t) : t[i] # "\n" THEN <<t>>
    ELSE LET i == CHOOSE k \in 1..Len(t) :
                      t[k] = "\n" /\ \A j \in 1..(k - 1) : t[j] # "\n"
         IN  <<SubSeq(t, 1, i - 1)>> \o SplitLines(SubSeq(t, i + 1, Len(t)))

RECURSIVE StrippedNonEmpty(_)
\* [x.strip() for x in lines if x.strip()]
StrippedNonEmpty(lines) ==
    IF lines = <<>> THEN <<>>
    ELSE IF Strip(Head(lines)) = <<>> THEN StrippedNonEmpty(Tail(lines))
    ELSE <<Strip(Head(lines))>> \o StrippedNonEmpty(Tail(lines))

StrResult(text)  == [outcome |-> "returned", kind |-> "str", text |-> text, items |-> <<>>]
ListResult(items) == [outcome |-> "returned", kind |-> "list", text |-> <<>>, items |-> items]

\* the four methods that answer with the model's stripped text
Generated(available, unavailable_text, behaviour) ==
    IF ~available THEN StrResult(unavailable_text)
    ELSE IF behaviour = "raises" THEN StrResult(ErrorGenerating)
    ELSE StrResult(Strip(ModelResponses[behaviour]))

\* the two methods that answer with the model's non-empty lines
Suggested(available, behaviour) ==
    IF ~available THEN ListResult(<<>>)
    ELSE IF behaviour = "raises" THEN ListResult(<<>>)
    ELSE ListResult(StrippedNonEmpty(SplitLines(Strip(ModelResponses[behaviour]))))

generate_content(available, prompt, behaviour) ==
    Generated(available, ServiceNotAvailableWithHint, behaviour)

generate_professional_summary(available, custom_prompt, behaviour) ==
    Generated(available, ServiceNotAvailableWithHint, behaviour)

generate_work_experience_description(available, job_title, behaviour) ==
    Generated(available, ServiceNotAvailable, behaviour)

generate_project_description(available, project_name, behaviour) ==
    Generated(available, ServiceNotAvailable, behaviour)

suggest_project_technologies(available, project_name, behaviour) ==
    Suggested(available, behaviour)

generate_skills_suggestions(available, job_title, behaviour) ==
    Suggested(available, behaviour)

\* the fixed message instead of the caller's text
improve_existing_content_message(available, current_content, behaviour) ==
    Generated(available, ServiceNotAvailable, behaviour)

improve_existing_content(available, current_content, behaviour) ==
    IF ~available THEN StrResult(current_content)
    ELSE IF behaviour = "raises" THEN StrResult(current_content)
    ELSE StrResult(Strip(ModelResponses[behaviour]))

AiInit ==
    /\ AppIdle /\ AgentIdle /\ PdfIdle /\ ProtoIdle /\ LibIdle
    /\ ai_env \in BOOLEAN
    /\ ai_call = NoAiCall

\* the model is asked only when the service is available
Behaviours == IF ai_env THEN ModelBehaviours ELSE {"not asked"}

AiCalled(method, argument, behaviour, result) ==
    /\ ai_call' = [method |-> method, argument |-> argument, response |-> behaviour,
                   outcome |-> result.outcome, kind |-> result.kind,
                   text |-> result.text, items |-> result.items]
    /\ UNCHANGED ai_env

GenerateContent(arg, b) ==
    AiCalled("generate_content", arg, b, generate_content(ai_env, arg, b))
GenerateProfessionalSummary(arg, b) ==
    AiCalled("generate_professional_summary", arg, b,
             generate_professional_summary(ai_env, arg, b))
GenerateWorkExperienceDescription(arg, b) ==
    AiCalled("generate_work_experience_description", arg, b,
             generate_work_experience_description(ai_env, arg, b))
GenerateProjectDescription(arg, b) ==
    AiCalled("generate_project_description", arg, b,
             generate_project_description(ai_env, arg, b))
SuggestProjectTechnologies(arg, b) ==
    AiCalled("suggest_project_technologies", arg, b,
             suggest_project_technologies(ai_env, arg, b))
GenerateSkillsSuggestions(arg, b) ==
    AiCalled("generate_skills_suggestions", arg, b,
             generate_skills_suggestions(ai_env, arg, b))
ImproveExistingContent(arg, b) ==
    AiCalled("improve_existing_content", arg, b, improve_existing_content(ai_env, arg, b))

NextAI ==
    \/ \E arg \in ArgumentTexts, b \in Behaviours :
           GenerateContent(arg, b) /\ UNCHANGED <<appVars, agentVars, pdfVars, protoVars, libVars>>
    \/ \E arg \in ArgumentTexts, b \in Behaviours :
           GenerateProfessionalSummary(arg, b)
               /\ UNCHANGED <<appVars, agentVars, pdfVars, protoVars, libVars>>
    \/ \E arg \in ArgumentTexts, b \in Behaviours :
           GenerateWorkExperienceDescription(arg, b)
               /\ UNCHANGED <<appVars, agentVars, pdfVars, protoVars, libVars>>
    \/ \E arg \in ArgumentTexts, b \in Behaviours :
           GenerateProjectDescription(arg, b)
               /\ UNCHANGED <<appVars, agentVars, pdfVars, protoVars, libVars>>
    \/ \E arg \in ArgumentTexts, b \in Behaviours :
           SuggestProjectTechnologies(arg, b)
               /\ UNCHANGED <<appVars, agentVars, pdfVars, protoVars, libVars>>
    \/ \E arg \in ArgumentTexts, b \in Behaviours :
           GenerateSkillsSuggestions(arg, b)
               /\ UNCHANGED <<appVars, agentVars, pdfVars, protoVars, libVars>>
    \/ \E arg \in ArgumentTexts, b \in Behaviours :
           ImproveExistingContent(arg, b)
               /\ UNCHANGED <<appVars, agentVars, pdfVars, protoVars, libVars>>

SpecAI == AiInit /\ [][NextAI]_vars

HintMethods  == {"generate_content", "generate_professional_summary"}
PlainMethods == {"generate_work_experience_description", "generate_project_description"}
ListMethods  == {"suggest_project_technologies", "generate_skills_suggestions"}
StrMethods   == HintMethods \cup PlainMethods \cup {"improve_existing_content"}

\* C6, as the specification states it: without a credential every string-returning method returns
\* a fixed "AI service not available" message and every list-returning method
\* returns the empty list, none raising.
C6_FixedMessageOrEmptyList ==
    (~ai_env /\ ai_call.method # "") =>
        /\ ai_call.outcome = "returned"
        /\ ai_call.method \in StrMethods =>
               ai_call.kind = "str"
               /\ ai_call.text \in {ServiceNotAvailableWithHint, ServiceNotAvailable}
        /\ ai_call.method \in ListMethods =>
               ai_call.kind = "list" /\ ai_call.items = <<>>

\* C6, as the code behaves: without a credential no method raises; generate_content and
\* generate_professional_summary return the message with the GEMINI_API_KEY
\* hint, generate_work_experience_description and generate_project_description
\* return "AI service not available.", improve_existing_content returns its
\* current_content argument unchanged, and the two list-returning methods
\* return the empty list.
C6_NoCredentialFallbacks ==
    (~ai_env /\ ai_call.method # "") =>
        /\ ai_call.outcome = "returned"
        /\ ai_call.method \in HintMethods =>
               ai_call.kind = "str" /\ ai_call.text = ServiceNotAvailableWithHint
        /\ ai_call.method \in PlainMethods =>
               ai_call.kind = "str" /\ ai_call.text = ServiceNotAvailable
        /\ ai_call.method = "improve_existing_content" =>
               ai_call.kind = "str" /\ ai_call.text = ai_call.argument
        /\ ai_call.method \in ListMethods =>
               ai_call.kind = "list" /\ ai_call.items = <<>>

C6_Witness ==
    /\ ~ai_env
    /\ ai_call.method = "improve_existing_content"
    /\ ai_call.argument = <<"led", " ", "team">>
    /\ ai_call.text = ai_call.argument

----------------------------------------------------------------------------
(* The prototype's "Match Resume" tab and its temporary upload file *)

MaxTempFiles == 4

\* what can raise between the creation of the file and its removal
Stages == <<"agents", "parse", "analyze", "match", "score", "render">>
StageFaults == Range(Stages) \cup {"none"}

JobDescriptions == { empty, blank, sql_pad }

\* the StateGraph of lines 145-154
END == "__end__"
EntryPoint == "parse"
Nodes == {"parse", "analyze", "match", "score"}

Edges_match_before_analyze ==
    { <<"parse", "match">>, <<"match", "analyze">>, <<"analyze", "score">>,
      <<"score", END>> }

Edges ==
    { <<"parse", "analyze">>, <<"analyze", "match">>, <<"match", "score">>,
      <<"score", END>> }

\* the state entries the step of a node reads and writes (lines 117-143)
StepReads ==
    [parse   |-> {},
     analyze |-> {"resume_parse", "job_parse"},
     match   |-> {"resume_parse", "job_parse"},
     score   |-> {"match_details", "resume_analysis", "job_analysis"}]

StepWrites ==
    [parse   |-> {"resume_parse", "job_parse"},
     analyze |-> {"resume_analysis", "job_analysis", "skill_gap"},
     match   |-> {"match_details"},
     score   |-> {"score_report"}]

\* one entry of the run: the node, and the entries its step read that no
\* step had written (state[...] raises KeyError on them)
Ran(node, state) == [node |-> node, unwritten |-> StepReads[node] \ state]

\* app.invoke(State()): the steps along the edges from the entry point; an
\* exception of a step ends the run
RECURSIVE Invoke(_, _, _, _)
Invoke(node, state, ran, fault) ==
    IF node = END
    THEN [ran |-> ran, raised |-> FALSE]
    ELSE IF fault = node \/ StepReads[node] \ state # {}
    THEN [ran |-> Append(ran, Ran(node, state)), raised |-> TRUE]
    ELSE Invoke((CHOOSE e \in Edges : e[1] = node)[2],
                state \cup StepWrites[node],
                Append(ran, Ran(node, state)), fault)

tab_match_resume(files, p, has_file, jd_text, fault, remove_fails) ==
    IF ~has_file \/ Strip(jd_text) = <<>>
    THEN [files |-> files,
          p |-> [p EXCEPT !.outcome = "error shown", !.path = 0,
                          !.removal_attempted = FALSE, !.ran = <<>>,
                          !.form = NoProto.form, !.built = NoProto.built]]
    ELSE LET path    == p.created + 1
             written == files \cup {path}
             run     == IF fault = "agents"
                        THEN [ran |-> <<>>, raised |-> TRUE]
                        ELSE Invoke(EntryPoint, {}, <<>>, fault)
         IN  IF fault # "none" \/ run.raised
             THEN \* the stage's exception leaves the function
                  [files |-> written,
                   p |-> [created |-> path, runs |-> p.runs,
                          outcome |-> IF fault # "none" THEN fault ELSE "KeyError",
                          path |-> path, removal_attempted |-> FALSE,
                          ran |-> run.ran, form |-> NoProto.form,
                          built |-> NoProto.built]]
             ELSE [files |-> IF remove_fails THEN written ELSE written \ {path},
                   p |-> [created |-> path, runs |-> p.runs + 1, outcome |-> "matched",
                          path |-> path, removal_attempted |-> TRUE,
                          ran |-> run.ran, form |-> NoProto.form,
                          built |-> NoProto.built]]

\* ResumeBuilder.build_pdf was not called / was called with this ResumeData
NotBuilt == [invoked |-> FALSE, name |-> <<>>, email |-> <<>>]
Built(data) == [invoked |-> TRUE, name |-> data.name, email |-> data.email]

\* ResumeData(name=name.strip(), email=email.strip(), phone=phone.strip(), ...)
ResumeData(form) ==
    [name |-> Strip(form.name), email |-> Strip(form.email), phone |-> Strip(form.phone)]

\* the form is validated by nothing
tab_resume_builder_unvalidated(p, form, build_fails) ==
    [p EXCEPT !.outcome = IF build_fails THEN "build_pdf raised" ELSE "PDF generated",
              !.path = 0, !.removal_attempted = FALSE, !.ran = <<>>,
              !.form = form, !.built = Built(ResumeData(form))]

\* the "Generate PDF" submit of the prototype's Resume Builder tab; proto
\* describes the handler that ran last
tab_resume_builder(p, form, build_fails) ==
    LET data == ResumeData(form)
    IN  IF data.name = <<>> \/ data.email = <<>>
        THEN [p EXCEPT !.outcome = "Name and Email are required.",
                       !.path = 0, !.removal_attempted = FALSE, !.ran = <<>>,
                       !.form = form, !.built = NotBuilt]
        ELSE [p EXCEPT !.outcome = IF build_fails THEN "build_pdf raised"
                                   ELSE "PDF generated",
                       !.path = 0, !.removal_attempted = FALSE, !.ran = <<>>,
                       !.form = form, !.built = Built(data)]

ProtoInit ==
    /\ AppIdle /\ ai_env = FALSE /\ AgentIdle /\ PdfIdle /\ AiIdle /\ LibIdle
    /\ tmp_files = {}
    /\ proto = NoProto

MatchResume(has_file, jd_text, fault, remove_fails) ==
    LET done == tab_match_resume(tmp_files, proto, has_file, jd_text, fault, remove_fails)
    IN  /\ proto.created < MaxTempFiles
        /\ tmp_files' = done.files
        /\ proto' = done.p

GeneratePdf(form, build_fails) ==
    /\ proto' = tab_resume_builder(proto, form, build_fails)
    /\ UNCHANGED tmp_files

NextProto ==
    \/ \E has_file \in BOOLEAN, jd \in JobDescriptions, fault \in StageFaults,
          remove_fails \in BOOLEAN :
           MatchResume(has_file, jd, fault, remove_fails)
               /\ UNCHANGED <<appVars, agentVars, pdfVars, aiVars, libVars>>
    \/ \E form \in FormInputs, build_fails \in BOOLEAN :
           GeneratePdf(form, build_fails)
               /\ UNCHANGED <<appVars, agentVars, pdfVars, aiVars, libVars>>

SpecProto == ProtoInit /\ [][NextProto]_vars

\* C7: a match operation that created the temporary file has attempted to
\* remove it by the time it ends, whichever stage raised, and a failed
\* removal does not fail the operation.
C7_TempFileRemovalAttempted ==
    proto.path # 0 =>
        /\ proto.removal_attempted
        /\ (proto.outcome = "matched" \/ proto.outcome \in Range(Stages))

PipelineOrder == <<"parse", "analyze", "match", "score">>

\* the state entries written by the steps that ran before the i-th
WrittenBefore(ran, i) == UNION {StepWrites[ran[k].node] : k \in 1..(i - 1)}

\* C15: within one invocation of the pipeline the stages run in the order
\* parse, analyze, match, score, none twice and none skipped; an invocation
\* that completes ran each of the four exactly once, and one a stage's
\* exception ended ran the stages up to that one. Every state entry a stage
\* read had been written by an earlier stage of the same invocation.
C15_StagesInOrder ==
    LET ran == proto.ran
    IN  /\ Len(ran) <= Len(PipelineOrder)
        /\ \A i \in 1..Len(ran) :
               /\ ran[i].node = PipelineOrder[i]
               /\ ran[i].unwritten = {}
               /\ StepReads[ran[i].node] \subseteq WrittenBefore(ran, i)
        /\ proto.outcome \in {"matched", "render"} => Len(ran) = Len(PipelineOrder)

\* an invocation completed, and the score step read what analyze and match
\* wrote
C15_Witness ==
    /\ proto.outcome = "matched"
    /\ Len(proto.ran) = 4
    /\ proto.ran[4].node = "score"
    /\ "match_details" \in WrittenBefore(proto.ran, 4)

----------------------------------------------------------------------------
(* Library functions: upload validation (src/src/parsing.py) *)

MB == 1024 * 1024

MaxFileBytes  == 10 * MB
MaxBatchBytes == 50 * MB
MaxBatchFiles == 20
MinFileBytes  == 100

PdfMagic == <<"%", "P", "D", "F">>
PdfExt   == <<".", "p", "d", "f">>

StartsWith(t, prefix) ==
    Len(t) >= Len(prefix) /\ SubSeq(t, 1, Len(prefix)) = prefix

EndsWith(t, suffix) ==
    Len(t) >= Len(suffix) /\ SubSeq(t, Len(t) - Len(suffix) + 1, Len(t)) = suffix

\* an uploaded file: its name, its size attribute (the number of bytes read())
\* returns) and the first bytes of its content
UploadedFile(name, size, head) == [name |-> name, size |-> size, head |-> head]

cv_pdf  == <<"c", "v", ".", "p", "d", "f">>
CV_PDF_ == <<"C", "V", ".", "P", "D", "F">>
cv_txt  == <<"c", "v", ".", "t", "x", "t">>
ZipHead == <<"P", "K", "0", "0", "0">>
PdfHead == <<"%", "P", "D", "F", "-">>

SmallPdf    == UploadedFile(cv_pdf, MinFileBytes, PdfHead)
UpperPdf    == UploadedFile(CV_PDF_, 2 * MB, PdfHead)
EvenPdf     == UploadedFile(cv_pdf, MaxBatchBytes \div MaxBatchFiles, PdfHead)
TinyPdf     == UploadedFile(cv_pdf, MinFileBytes - 1, PdfHead)
LargestPdf  == UploadedFile(cv_pdf, MaxFileBytes, PdfHead)
NearLargest == UploadedFile(cv_pdf, MaxFileBytes - MinFileBytes + 1, PdfHead)
OversizePdf == UploadedFile(cv_pdf, MaxFileBytes + 1, PdfHead)
ZipAsPdf    == UploadedFile(cv_pdf, 2 * MB, ZipHead)
PdfAsTxt    == UploadedFile(cv_txt, 2 * MB, PdfHead)

UploadedFiles ==
    {SmallPdf, UpperPdf, EvenPdf, TinyPdf, LargestPdf, NearLargest, OversizePdf, ZipAsPdf, PdfAsTxt}

Fail(msg) == [ok |-> FALSE, msg |-> msg]
Pass      == [ok |-> TRUE, msg |-> ""]

validate_pdf_upload(file) ==
    IF ~EndsWith(Lower(file.name), PdfExt) THEN Fail("Invalid file type")
    ELSE IF file.size > MaxFileBytes THEN Fail("File too large")
    ELSE IF file.size < MinFileBytes THEN Fail("File appears to be corrupted or empty")
    ELSE IF ~StartsWith(file.head, PdfMagic) THEN Fail("File does not appear to be a valid PDF")
    ELSE Pass

InvalidFiles(files) == {i \in 1..Len(files) : ~validate_pdf_upload(files[i]).ok}

TotalSize(files) == SumSeq([i \in 1..Len(files) |-> files[i].size])

\* the count test is >= instead of >
validate_multiple_pdf_uploads_strict(files) ==
    IF Len(files) = 0 THEN Fail("No files uploaded")
    ELSE IF Len(files) >= MaxBatchFiles THEN Fail("Too many files")
    ELSE IF InvalidFiles(files) # {} THEN Fail("Invalid files found")
    ELSE IF TotalSize(files) > MaxBatchBytes THEN Fail("Total file size too large")
    ELSE Pass

validate_multiple_pdf_uploads(files) ==
    IF Len(files) = 0 THEN Fail("No files uploaded")
    ELSE IF Len(files) > MaxBatchFiles THEN Fail("Too many files")
    ELSE IF InvalidFiles(files) # {} THEN Fail("Invalid files found")
    ELSE IF TotalSize(files) > MaxBatchBytes THEN Fail("Total file size too large")
    ELSE Pass

Copies(n, file) == [i \in 1..n |-> file]

\* the batches validated in the model
Batches ==
    { <<>>, <<SmallPdf>>, <<UpperPdf, SmallPdf>>, <<SmallPdf, ZipAsPdf>>, <<PdfAsTxt>>,
      <<TinyPdf>>, <<LargestPdf>>, <<OversizePdf, SmallPdf>>,
      Copies(MaxBatchFiles - 1, SmallPdf), Copies(MaxBatchFiles, SmallPdf),
      Copies(MaxBatchFiles + 1, SmallPdf),
      Copies(MaxBatchFiles - 1, SmallPdf) \o <<ZipAsPdf>>,
      Copies(5, LargestPdf),
      Copies(4, LargestPdf) \o <<NearLargest, SmallPdf>>,
      Copies(5, LargestPdf) \o <<SmallPdf>>,
      Copies(MaxBatchFiles, UpperPdf), Copies(MaxBatchFiles, EvenPdf),
      Copies(MaxBatchFiles, EvenPdf) \o <<SmallPdf>>, Copies(MaxBatchFiles, LargestPdf) }

ValidatePdfUpload(file) ==
    lib_call' = [fn |-> "validate_pdf_upload", files |-> <<file>>,
                 result |-> validate_pdf_upload(file)]

ValidateMultiplePdfUploads(files) ==
    lib_call' = [fn |-> "validate_multiple_pdf_uploads", files |-> files,
                 result |-> validate_multiple_pdf_uploads(files)]

\* a file a reader would call a valid PDF of an allowed size
IsValidPdf(file) ==
    /\ EndsWith(Lower(file.name), PdfExt)
    /\ StartsWith(file.head, PdfMagic)
    /\ file.size >= MinFileBytes
    /\ file.size <= MaxFileBytes

\* C11: a batch with a file that lacks the %PDF magic bytes or exceeds 10MB, a
\* batch of more than 20 files and a batch of more than 50MB are rejected; a
\* batch of valid PDFs is accepted when it has at most 20 files (20 included)
\* and at most 50MB combined (50MB included).
C11_UploadValidationLimits ==
    lib_call.fn = "validate_multiple_pdf_uploads" =>
        LET fs == lib_call.files
            ok == lib_call.result.ok
        IN  /\ (\E i \in 1..Len(fs) :
                    ~StartsWith(fs[i].head, PdfMagic) \/ fs[i].size > 10 * MB) => ~ok
            /\ Len(fs) > 20 => ~ok
            /\ TotalSize(fs) > 50 * MB => ~ok
            /\ (/\ Len(fs) \in 1..20
                /\ TotalSize(fs) <= 50 * MB
                /\ \A i \in 1..Len(fs) : IsValidPdf(fs[i])) => ok

C11_Witness ==
    /\ lib_call.fn = "validate_multiple_pdf_uploads"
    /\ Len(lib_call.files) = 20
    /\ TotalSize(lib_call.files) = 50 * MB
    /\ lib_call.result.ok

----------------------------------------------------------------------------
(* ChromaVectorStore.add_texts (src/src/vectorstore.py). A collection is the
   sequence of its documents; vectors is the number of rows of the array;
   metadatas is None (the default) or a list of the given length. *)

Document(id, text) == [id |-> id, text |-> text]

Collections == { <<>>, << Document(0, "resume") >> }

TextLists == { <<>>, <<"a">>, <<"a", "b">> }

VectorRows == 0..2

NoMetadatas == [given |-> FALSE, len |-> 0]
Metadatas(n) == [given |-> TRUE, len |-> n]
MetadataLists == {NoMetadatas} \cup {Metadatas(n) : n \in 0..2}

\* ids doc-<count> .. doc-<count + len(texts) - 1>
Added(collection, texts) ==
    collection \o [i \in 1..Len(texts) |-> Document(Len(collection) + i - 1, texts[i])]

add_texts(collection, texts, vectors, metadatas) ==
    IF Len(texts) = 0
    THEN [outcome |-> "returned", collection |-> collection]
    ELSE IF vectors # Len(texts)
    THEN [outcome |-> "ValueError", collection |-> collection]
    ELSE LET \* metadatas or [{} for _ in texts]: None and the empty list
             \* are both replaced
             filled == IF metadatas.given /\ metadatas.len > 0
                       THEN metadatas.len ELSE Len(texts)
         IN  IF filled # Len(texts)
             THEN [outcome |-> "ValueError", collection |-> collection]
             ELSE [outcome |-> "returned", collection |-> Added(collection, texts)]

AddTexts(collection, texts, vectors, metadatas) ==
    lib_call' = [fn |-> "add_texts", collection |-> collection, texts |-> texts,
                 vectors |-> vectors, metadatas |-> metadatas,
                 result |-> add_texts(collection, texts, vectors, metadatas)]

\* texts, vectors and the metadatas that were passed correspond one to one
CorrespondOneToOne(texts, vectors, metadatas) ==
    /\ vectors = Len(texts)
    /\ metadatas.given => metadatas.len = Len(texts)

\* C13: every add_texts call whose texts, vectors and metadatas do not
\* correspond one to one (empty texts with non-empty vectors or metadatas
\* included) fails with the invalid-input error, and a failed call leaves
\* the collection as it was.
C13_MismatchRejected ==
    lib_call.fn = "add_texts" =>
        /\ ~CorrespondOneToOne(lib_call.texts, lib_call.vectors, lib_call.metadatas)
               => lib_call.result.outcome = "ValueError"
        /\ lib_call.result.outcome = "ValueError"
               => lib_call.result.collection = lib_call.collection

----------------------------------------------------------------------------
(* The Resume Builder submit of both programs. The full application and the
   prototype are separate programs with separate state, so a behaviour runs
   one of them. *)

NextBuilders ==
    \/ ProtoIdle /\ Next
    \/ \E form \in FormInputs, build_fails \in BOOLEAN :
           AppIdle /\ GeneratePdf(form, build_fails)
               /\ UNCHANGED <<appVars, agentVars, pdfVars, aiVars, libVars>>

SpecBuilders == Init /\ [][NextBuilders]_vars

\* name, email or phone is empty after trimming
RequiredFieldMissing(f) ==
    Strip(f.name) = <<>> \/ Strip(f.email) = <<>> \/ Strip(f.phone) = <<>>

\* a submit of the full application's form: rejected with an error and no
\* change of the session state when a required field is missing, and the
\* PDF builder runs only with a name and an email
FullAppSubmit ==
    (last'.op = "submit" /\ clicks' # clicks) =>
        LET f == session_state.form
        IN  /\ RequiredFieldMissing(f) =>
                   /\ last'.outcome = "required field missing"
                   /\ session_state' = session_state
            /\ last'.outcome \in {"resume generated", "pdf failed"} =>
                   Strip(f.name) # <<>> /\ Strip(f.email) # <<>>

\* a submit of the prototype's form
PrototypeSubmit ==
    (proto' # proto /\ proto'.outcome \in {"Name and Email are required.",
                                            "PDF generated", "build_pdf raised"}) =>
        LET f == proto'.form
        IN  /\ (Strip(f.name) = <<>> \/ Strip(f.email) = <<>>) =>
                   /\ proto'.outcome = "Name and Email are required."
                   /\ ~proto'.built.invoked
                   /\ proto'.runs = proto.runs
                   /\ tmp_files' = tmp_files
            /\ proto'.built.invoked =>
                   proto'.built.name # <<>> /\ proto'.built.email # <<>>

\* C14: a Resume Builder submit with a required field empty after trimming
\* (name, email or phone in the full application; name or email in the
\* prototype) shows an error and does nothing else: session metrics and
\* skills database stay as they were and the PDF builder is not invoked; the
\* PDF builder is only ever invoked with a non-empty name and email.
C14_SubmitValidated == [][FullAppSubmit /\ PrototypeSubmit]_vars

\* the full application rejected a submit with a required field missing
\* when the session already had metrics
C14_Witness ==
    /\ last = Did("submit", "required field missing", "")
    /\ RequiredFieldMissing(session_state.form)
    /\ session_state.session_metrics.resumes_processed > 0

----------------------------------------------------------------------------
(* The HTML of the match report (src/src/reporting.py, src/pdf_diagnostic.py).
   Only the parts of the document that come from the arguments are kept. *)

amp  == <<"&", "a", "m", "p", ";">>
lt   == <<"&", "l", "t", ";">>
gt   == <<"&", "g", "t", ";">>
quot == <<"&", "q", "u", "o", "t", ";">>
Ellipsis == <<".", ".", ".">>
Unknown  == <<"U", "n", "k", "n", "o", "w", "n">>

\* str.replace of one character
RECURSIVE Replace(_, _, _)
Replace(s, c, by) ==
    IF s = <<>> THEN <<>>
    ELSE (IF Head(s) = c THEN by ELSE <<Head(s)>>) \o Replace(Tail(s), c, by)

\* text[:n]
Prefix(s, n) == SubSeq(s, 1, IF Len(s) < n THEN Len(s) ELSE n)

SnippetChars == 120
DiagnosticSnippetChars == 100

\* reporting.generate_pdf_report, the WeasyPrint branch
ReportHtml(candidate_name, explanation, missing_skill, snippet) ==
    [candidate_name |->
         Replace(Replace(Replace(IF candidate_name = <<>> THEN Unknown
                                 ELSE candidate_name,
                                 "&", amp), "<", lt), ">", gt),
     explanation |->
         Replace(Replace(Replace(Replace(explanation, "&", amp), "<", lt), ">", gt),
                 "\n", <<"<", "b", "r", ">">>),
     missing_skill |->
         Replace(Replace(Replace(missing_skill, "&", amp), "<", lt), ">", gt),
     snippet |->
         Replace(Replace(Replace(Replace(
             Prefix(snippet, SnippetChars)
                 \o (IF Len(snippet) > SnippetChars THEN Ellipsis ELSE <<>>),
             "&", amp), "<", lt), ">", gt), "\"", quot)]

\* pdf_diagnostic.generate_pdf_report, the WeasyPrint branch
DiagnosticReportHtml(candidate_name, explanation, missing_skill, snippet) ==
    [candidate_name |-> IF candidate_name = <<>> THEN Unknown ELSE candidate_name,
     explanation    |-> explanation,
     missing_skill  |-> missing_skill,
     snippet        |-> Prefix(snippet, DiagnosticSnippetChars) \o Ellipsis]

\* the texts a user supplies
UserTexts == { <<"A", "l">>, <<"<", "b", ">", "&">>, <<"\"", "x", "\"">> }

GenerateReport(candidate_name, explanation, missing_skill, snippet) ==
    lib_call' = [fn |-> "generate_pdf_report",
                 html |-> ReportHtml(candidate_name, explanation, missing_skill, snippet)]

DiagnosticGenerateReport(candidate_name, explanation, missing_skill, snippet) ==
    lib_call' = [fn |-> "pdf_diagnostic.generate_pdf_report",
                 html |-> DiagnosticReportHtml(candidate_name, explanation,
                                               missing_skill, snippet)]

Entities == {amp, lt, gt, quot}

\* no <, > or " is left in the text, and every & starts an entity
Escaped(h) ==
    \A i \in 1..Len(h) :
        /\ h[i] \notin {"<", ">", "\""}
        /\ h[i] = "&" =>
               \E e \in Entities :
                   /\ i + Len(e) - 1 <= Len(h)
                   /\ SubSeq(h, i, i + Len(e) - 1) = e

\* C18: in the HTML a report builder generates, the candidate name, the
\* explanation, each missing skill and each snippet text have &, <, > and "
\* replaced by entities.
C18_UserTextEscaped ==
    lib_call.fn \in {"generate_pdf_report", "pdf_diagnostic.generate_pdf_report"} =>
        /\ Escaped(lib_call.html.candidate_name)
        /\ Escaped(lib_call.html.explanation)
        /\ Escaped(lib_call.html.missing_skill)
        /\ Escaped(lib_call.html.snippet)



----------------------------------------------------------------------------
(* AnalyzerAgent.skill_gap of the prototype (backend/analyzer_agent.py) *)

\* the skills of the model, in the order sorted() gives them
SkillNames == <<"aws", "python", "sql">>

SkillRank(s) == CHOOSE i \in 1..Len(SkillNames) : SkillNames[i] = s

RECURSIVE InsertSkill(_, _)
InsertSkill(sorted, s) ==
    IF sorted = <<>> THEN <<s>>
    ELSE IF SkillRank(s) < SkillRank(Head(sorted)) THEN <<s>> \o sorted
    ELSE <<Head(sorted)>> \o InsertSkill(Tail(sorted), s)

RECURSIVE SortedSkills(_)
SortedSkills(list) ==
    IF list = <<>> THEN <<>>
    ELSE InsertSkill(SortedSkills(Tail(list)), Head(list))

\* skill lists of up to two entries, repeated entries included
SkillLists ==
    {<<>>} \cup {<<a>> : a \in Range(SkillNames)}
           \cup {<<a, b>> : a \in Range(SkillNames), b \in Range(SkillNames)}

\* missing is taken from the resume's skills instead of the job's
skill_gap_missing_of_resume(resume_skills, job_skills) ==
    [missing |-> SortedSkills(SelectSeq(resume_skills,
                                        LAMBDA s : s \notin Range(job_skills))),
     overlap |-> SortedSkills(SelectSeq(job_skills,
                                        LAMBDA s : s \in Range(resume_skills))),
     extras  |-> SortedSkills(SelectSeq(resume_skills,
                                        LAMBDA s : s \notin Range(job_skills)))]

skill_gap(resume_skills, job_skills) ==
    [missing |-> SortedSkills(SelectSeq(job_skills,
                                        LAMBDA s : s \notin Range(resume_skills))),
     overlap |-> SortedSkills(SelectSeq(job_skills,
                                        LAMBDA s : s \in Range(resume_skills))),
     extras  |-> SortedSkills(SelectSeq(resume_skills,
                                        LAMBDA s : s \notin Range(job_skills)))]

SkillGap(resume_skills, job_skills) ==
    lib_call' = [fn |-> "skill_gap", resume_skills |-> resume_skills,
                 job_skills |-> job_skills,
                 result |-> skill_gap(resume_skills, job_skills)]

\* C19: with R the resume's skills and J the job's, skill_gap returns
\* missing, overlap and extras with missing \cup overlap = J,
\* overlap \cup extras a subset of R, and missing and overlap disjoint.
C19_SkillGapPartitionsJob ==
    lib_call.fn = "skill_gap" =>
        LET R == Range(lib_call.resume_skills)
            J == Range(lib_call.job_skills)
            missing == Range(lib_call.result.missing)
            overlap == Range(lib_call.result.overlap)
            extras  == Range(lib_call.result.extras)
        IN  /\ missing \cup overlap = J
            /\ (overlap \cup extras) \subseteq R
            /\ missing \cap overlap = {}

\* a call whose three lists are all non-empty
C19_Witness ==
    /\ lib_call.fn = "skill_gap"
    /\ lib_call.result.missing # <<>>
    /\ lib_call.result.overlap # <<>>
    /\ lib_call.result.extras # <<>>

----------------------------------------------------------------------------
(* Calls of compute_match_score (src/src/scoring.py) *)

\* pairs of vectors of equal length: zero-norm, parallel, opposite, oblique,
\* and the pair of empty vectors
Vectors == { <<0, 0>>, <<3, 4>>, <<4, 3>>, <<-3, -4>> }
VectorPairs == (Vectors \X Vectors) \cup { << <<>>, <<>> >> }

ScoreSkillLists == { <<>>, <<sql_pad, go>>, <<SQL_, blank>>, <<sql, go, nodejs>> }

ComputeMatchScore(resume_vec, job_vec, resume_skills, job_skills) ==
    lib_call' = [fn |-> "compute_match_score",
                 resume_vec |-> resume_vec, job_vec |-> job_vec,
                 resume_skills |-> resume_skills, job_skills |-> job_skills,
                 result |-> compute_match_score(resume_vec, job_vec,
                                                resume_skills, job_skills)]

\* C20: compute_match_score does not raise and returns a score in [0,100]
\* for every pair of vectors of equal length and every pair of skill lists,
\* zero-norm vectors and empty skill lists included.
C20_ScoreInRange ==
    lib_call.fn = "compute_match_score" =>
        /\ lib_call.result.outcome = "returned"
        /\ RLeq(RInt(0), lib_call.result.score)
        /\ RLeq(lib_call.result.score, RInt(100))

\* a call with a zero-norm vector and no skills on either side returned
C20_Witness ==
    /\ lib_call.fn = "compute_match_score"
    /\ norm(lib_call.resume_vec) = 0
    /\ lib_call.job_vec = <<3, 4>>
    /\ lib_call.resume_skills = <<>>
    /\ lib_call.job_skills = <<>>
    /\ lib_call.result.outcome = "returned"
    /\ lib_call.result.similarity = RInt(0)

\* the score of the call lib_call records is not above the score of a call
\* with the same skill lists and vectors of no smaller cosine similarity
MonotoneInSimilarity ==
    \A v \in VectorPairs :
        LET other == compute_match_score(v[1], v[2], lib_call.resume_skills,
                                         lib_call.job_skills)
        IN  RLeq(lib_call.result.similarity, other.similarity)
                => RLeq(lib_call.result.score, other.score)

\* ... and not above the score of a call with the same vectors and skill
\* lists of no smaller overlap count
MonotoneInOverlap ==
    \A resume_skills \in ScoreSkillLists, job_skills \in ScoreSkillLists :
        LET other == compute_match_score(lib_call.resume_vec, lib_call.job_vec,
                                         resume_skills, job_skills)
        IN  lib_call.result.skill_overlap <= other.skill_overlap
                => RLeq(lib_call.result.score, other.score)

\* C21: compute_match_score is monotone in each input: with the skill lists
\* fixed a larger cosine similarity never gives a smaller score, and with
\* the vectors fixed a larger skill-overlap count never gives a smaller
\* score.
C21_ScoreMonotone ==
    lib_call.fn = "compute_match_score" =>
        MonotoneInSimilarity /\ MonotoneInOverlap

\* the half of C21 about the similarity alone
C21_SimilarityHalf ==
    lib_call.fn = "compute_match_score" => MonotoneInSimilarity

----------------------------------------------------------------------------
(* Calls of calculate_resume_job_match (src/src/scoring.py) *)

python == <<"p", "y", "t", "h", "o", "n">>
react  == <<"r", "e", "a", "c", "t">>

MatchSkillLists ==
    { <<>>, <<python, sql, react>>, <<python, sql>>, <<go>>, <<SQL_, blank>> }

CalculateResumeJobMatch(resume_skills, job_skills) ==
    lib_call' = [fn |-> "calculate_resume_job_match",
                 resume_skills |-> resume_skills, job_skills |-> job_skills,
                 result |-> calculate_resume_job_match([skills |-> resume_skills],
                                                       job_skills)]

\* the non-blank skills of a list, lower-cased and trimmed, by number
SkillCount(skills) == Cardinality(SkillSet(skills))
AtLeastOne(n) == IF n < 1 THEN 1 ELSE n

\* C22: skill_match_score is
\*   min(100, overlap / max(1, |job|) * 100 + min(|resume| / max(1, |job|) * 10, 20)),
\* always within [0,100]; resume skills {python, sql, react} against job
\* skills {python, sql} give overlap 2, breadth bonus 15 and score 100.
C22_MatchScoreFormula ==
    lib_call.fn = "calculate_resume_job_match" =>
        LET overlap == Cardinality(SkillSet(lib_call.resume_skills)
                                       \cap SkillSet(lib_call.job_skills))
            job     == AtLeastOne(SkillCount(lib_call.job_skills))
            resume  == SkillCount(lib_call.resume_skills)
            bonus   == RMin(RMul(Rat(resume, job), RInt(10)), RInt(20))
            score   == RMin(RInt(100), RAdd(RMul(Rat(overlap, job), RInt(100)), bonus))
        IN  /\ lib_call.result.skill_match_score = score
            /\ RLeq(RInt(0), lib_call.result.skill_match_score)
            /\ RLeq(lib_call.result.skill_match_score, RInt(100))
            /\ (lib_call.resume_skills = <<python, sql, react>>
                    /\ lib_call.job_skills = <<python, sql>>) =>
                   /\ lib_call.result.skill_overlap_count = 2
                   /\ lib_call.result.skill_breadth_bonus = RInt(15)
                   /\ lib_call.result.skill_match_score = RInt(100)

\* the call of the example
C22_Witness ==
    /\ lib_call.fn = "calculate_resume_job_match"
    /\ lib_call.resume_skills = <<python, sql, react>>
    /\ lib_call.job_skills = <<python, sql>>
    /\ lib_call.result.skill_match_score = RInt(100)

----------------------------------------------------------------------------
(* Workflow traces (src/src/workflow.py): build_workflow_trace,
   classify_agent_type and the keys of get_agent_color_scheme *)

w_skills == <<"s", "k", "i", "l", "l", "s">>
w_skill == <<"s", "k", "i", "l", "l">>
w_extract == <<"e", "x", "t", "r", "a", "c", "t">>
w_parse == <<"p", "a", "r", "s", "e">>
w_match == <<"m", "a", "t", "c", "h">>
w_score == <<"s", "c", "o", "r", "e">>
w_enhance == <<"e", "n", "h", "a", "n", "c", "e">>
w_suggest == <<"s", "u", "g", "g", "e", "s", "t">>
w_resume == <<"r", "e", "s", "u", "m", "e">>
w_cv == <<"c", "v">>
w_improve == <<"i", "m", "p", "r", "o", "v", "e">>
w_job == <<"j", "o", "b">>
w_recommend == <<"r", "e", "c", "o", "m", "m", "e", "n", "d">>
w_content == <<"c", "o", "n", "t", "e", "n", "t">>
w_generate == <<"g", "e", "n", "e", "r", "a", "t", "e">>
w_embedding == <<"e", "m", "b", "e", "d", "d", "i", "n", "g">>
w_vector == <<"v", "e", "c", "t", "o", "r">>
w_report == <<"r", "e", "p", "o", "r", "t">>
w_parser == <<"p", "a", "r", "s", "e", "r">>

\* agent names: the four of src/src/agents.py and one for each other branch
ResumeParser == <<"R", "e", "s", "u", "m", "e", "P", "a", "r", "s", "e", "r">>
JobParser == <<"J", "o", "b", "P", "a", "r", "s", "e", "r">>
ContentEnhancer == <<"C", "o", "n", "t", "e", "n", "t", "E", "n", "h", "a", "n", "c", "e", "r">>
MatcherScorer == <<"M", "a", "t", "c", "h", "e", "r", "S", "c", "o", "r", "e", "r">>
SkillsExtractor == <<"S", "k", "i", "l", "l", "s", " ", "E", "x", "t", "r", "a", "c", "t", "o", "r">>
SkillScorer == <<"S", "k", "i", "l", "l", "S", "c", "o", "r", "e", "r">>
SkillSuggester == <<"S", "k", "i", "l", "l", " ", "S", "u", "g", "g", "e", "s", "t", "e", "r">>
SkillsAgent == <<"S", "k", "i", "l", "l", "s", " ", "A", "g", "e", "n", "t">>
CvImprover == <<"C", "V", " ", "I", "m", "p", "r", "o", "v", "e", "r">>
ResumeAgent == <<"R", "e", "s", "u", "m", "e", " ", "A", "g", "e", "n", "t">>
JobRecommender == <<"J", "o", "b", " ", "R", "e", "c", "o", "m", "m", "e", "n", "d", "e", "r">>
JobAgent == <<"J", "o", "b", " ", "A", "g", "e", "n", "t">>
VectorStore == <<"V", "e", "c", "t", "o", "r", "S", "t", "o", "r", "e">>
ReportAgent == <<"R", "e", "p", "o", "r", "t", " ", "A", "g", "e", "n", "t">>
Extractor == <<"E", "x", "t", "r", "a", "c", "t", "o", "r">>
Enhancer == <<"E", "n", "h", "a", "n", "c", "e", "r">>
Planner == <<"P", "l", "a", "n", "n", "e", "r">>

AgentNames ==
    { ResumeParser, JobParser, ContentEnhancer, MatcherScorer,
      SkillsExtractor, SkillScorer, SkillSuggester, SkillsAgent,
      CvImprover, ResumeAgent, JobRecommender, JobAgent,
      VectorStore, ReportAgent, Extractor, Enhancer,
      Planner,
      <<>> }

\* word in name
Contains(name, word) ==
    \E i \in 1..(Len(name) - Len(word) + 1) :
        SubSeq(name, i, i + Len(word) - 1) = word

classify_agent_type(name) ==
    LET name_lower == Lower(name)
        has(word)  == Contains(name_lower, word)
    IN  IF has(w_skills) \/ has(w_skill)
        THEN (IF has(w_extract) \/ has(w_parse) THEN "skills_extractor"
              ELSE IF has(w_match) \/ has(w_score) THEN "skills_matcher"
              ELSE IF has(w_enhance) \/ has(w_suggest) THEN "skills_enhancer"
              ELSE "skills_processor")
        ELSE IF has(w_resume) \/ has(w_cv)
        THEN (IF has(w_parse) \/ has(w_extract) THEN "resume_parser"
              ELSE IF has(w_enhance) \/ has(w_improve) THEN "resume_enhancer"
              ELSE "resume_processor")
        ELSE IF has(w_job)
        THEN (IF has(w_parse) \/ has(w_extract) THEN "job_parser"
              ELSE IF has(w_match) \/ has(w_recommend) THEN "job_matcher"
              ELSE "job_processor")
        ELSE IF has(w_content) \/ has(w_generate) THEN "content_generator"
        ELSE IF has(w_embedding) \/ has(w_vector) THEN "embedding_processor"
        ELSE IF has(w_report) THEN "report_generator"
        ELSE IF has(w_parser) \/ has(w_extract) THEN "parser"
        ELSE IF has(w_enhance) THEN "enhancer"
        ELSE IF has(w_match) \/ has(w_score) THEN "analyzer"
        ELSE "generic"

\* the table without its 'generic' entry
get_agent_color_scheme_without_generic ==
    { "skills_extractor", "skills_matcher", "skills_enhancer", "skills_processor",
      "resume_parser", "resume_enhancer", "resume_processor",
      "job_parser", "job_matcher", "job_processor",
      "content_generator", "embedding_processor", "report_generator",
      "parser", "enhancer", "analyzer", "error" }

\* the keys of the table get_agent_color_scheme returns
get_agent_color_scheme ==
    { "skills_extractor", "skills_matcher", "skills_enhancer", "skills_processor",
      "resume_parser", "resume_enhancer", "resume_processor",
      "job_parser", "job_matcher", "job_processor",
      "content_generator", "embedding_processor", "report_generator",
      "parser", "enhancer", "analyzer", "generic", "error" }

\* an edge from the last step back to the first is added
build_workflow_trace_ring(names) ==
    [steps |-> names,
     edges |-> [i \in 1..Len(names) |->
                   <<names[i], names[IF i = Len(names) THEN 1 ELSE i + 1]>>],
     metadata |-> [total_steps |-> Len(names),
                   execution_order |-> names,
                   step_types |-> [i \in 1..Len(names) |-> classify_agent_type(names[i])]]]

\* a step is its agent's name
build_workflow_trace(names) ==
    [steps |-> names,
     edges |-> [i \in 1..(Len(names) - 1) |-> <<names[i], names[i + 1]>>],
     metadata |-> [total_steps |-> Len(names),
                   execution_order |-> names,
                   step_types |-> [i \in 1..Len(names) |-> classify_agent_type(names[i])]]]

\* the step lists of the model: up to MaxSteps steps of the four agents
MaxSteps == 3
StepNames == {ResumeParser, JobParser, ContentEnhancer, MatcherScorer}
StepLists == UNION {[1..n -> StepNames] : n \in 0..MaxSteps}

ClassifyAgentType(name) ==
    lib_call' = [fn |-> "classify_agent_type", name |-> name,
                 result |-> classify_agent_type(name),
                 \* the lookup color_scheme[agent_type] of the styles
                 colors |-> IF classify_agent_type(name) \in get_agent_color_scheme
                            THEN "found" ELSE "KeyError"]

BuildWorkflowTrace(names) ==
    lib_call' = [fn |-> "build_workflow_trace", steps |-> names,
                 result |-> build_workflow_trace(names)]

WorkflowInit ==
    /\ AppIdle /\ ai_env = FALSE /\ AgentIdle /\ PdfIdle /\ AiIdle /\ ProtoIdle
    /\ lib_call = NoLibCall

NextWorkflow ==
    \/ \E name \in AgentNames :
           ClassifyAgentType(name)
               /\ UNCHANGED <<appVars, agentVars, pdfVars, aiVars, protoVars>>
    \/ \E names \in StepLists :
           BuildWorkflowTrace(names)
               /\ UNCHANGED <<appVars, agentVars, pdfVars, aiVars, protoVars>>

SpecWorkflow == WorkflowInit /\ [][NextWorkflow]_vars

\* C23: the trace build_workflow_trace builds from N >= 1 steps has exactly
\* N-1 edges, and edge i goes from the name of step i to the name of step
\* i+1: one linear chain, with no edge for N = 1.
C23_EdgesFormChain ==
    (lib_call.fn = "build_workflow_trace" /\ Len(lib_call.steps) >= 1) =>
        LET edges == lib_call.result.edges
            N     == Len(lib_call.steps)
        IN  /\ Len(edges) = N - 1
            /\ \A i \in 1..Len(edges) :
                   edges[i] = <<lib_call.steps[i], lib_call.steps[i + 1]>>

\* a trace of three steps, and so two edges, was built
C23_Witness ==
    /\ lib_call.fn = "build_workflow_trace"
    /\ Len(lib_call.steps) = 3
    /\ Len(lib_call.result.edges) = 2

\* C30: for every agent name classify_agent_type returns a key of the
\* color-scheme table, so indexing the table by the agent type finds an
\* entry.
C30_TypeHasColors ==
    lib_call.fn = "classify_agent_type" =>
        /\ lib_call.result \in get_agent_color_scheme
        /\ lib_call.colors = "found"

\* a name that matches no keyword was classified as generic
C30_Witness ==
    /\ lib_call.fn = "classify_agent_type"
    /\ lib_call.name = Planner
    /\ lib_call.result = "generic"
    /\ lib_call.colors = "found"

\* every type classify_agent_type can return is returned for a name
AllTypesReached ==
    {classify_agent_type(name) : name \in AgentNames} = get_agent_color_scheme \ {"error"}

----------------------------------------------------------------------------
(* content_enhancer_agent (src/src/agents.py): three suggestions for the   *)
(* resume text, from the chat model when a credential and the LangChain    *)
(* binding are there and the call succeeds, rule-based otherwise.          *)

\* what os.getenv gives for a variable: None, "" or a key
EnvValues == {"unset", "empty", "key"}

\* os.getenv("GEMINI_API_KEY") or os.getenv("GOOGLE_API_KEY")
api_key(gemini, google) == IF gemini = "key" THEN gemini ELSE google

\* bool(api_key and ChatGoogleGenerativeAI is not None)
can_use_llm(gemini, google, binding) == api_key(gemini, google) = "key" /\ binding

RECURSIVE splitlines(_)
\* str.splitlines(): no line for the empty text, none after a final newline
splitlines(t) ==
    IF t = <<>> THEN <<>>
    ELSE IF \A i \in 1..Len(t) : t[i] # "\n" THEN <<t>>
    ELSE LET i == CHOOSE k \in 1..Len(t) :
                      t[k] = "\n" /\ \A j \in 1..(k - 1) : t[j] # "\n"
         IN  <<SubSeq(t, 1, i - 1)>> \o splitlines(SubSeq(t, i + 1, Len(t)))

RECURSIVE StripChars(_, _)
\* s.strip(chars)
StripChars(s, chars) ==
    IF s = <<>> THEN s
    ELSE IF Head(s) \in chars THEN StripChars(Tail(s), chars)
    ELSE IF s[Len(s)] \in chars THEN StripChars(SubSeq(s, 1, Len(s) - 1), chars)
    ELSE s

RECURSIVE BulletLines(_)
\* [s.strip("- ") for s in lines if s.strip()]
BulletLines(lines) ==
    IF lines = <<>> THEN <<>>
    ELSE IF Strip(Head(lines)) = <<>> THEN BulletLines(Tail(lines))
    ELSE <<StripChars(Head(lines), {"-", " "})>> \o BulletLines(Tail(lines))

RECURSIVE FirstNonBlank(_, _)
\* next((b for b in base if b.strip()), default)
FirstNonBlank(base, default) ==
    IF base = <<>> THEN default
    ELSE IF Strip(Head(base)) # <<>> THEN Head(base)
    ELSE FirstNonBlank(Tail(base), default)

SuggestionCount == 3
SampleChars == 60
YourBulletHere == <<"Y","o","u","r"," ","b","u","l","l","e","t"," ","h","e","r","e">>
GeneratedReasoning == "Generated with Gemini via LangChain."
FallbackReasoning  == "Fallback suggestions due to unavailable LLM (e.g., quota exceeded)."

\* the rule-based suggestions, the first one quoting the first non-blank line
FallbackSuggestions(resume_text) ==
    LET base   == splitlines(Strip(resume_text))
        sample == FirstNonBlank(base, YourBulletHere)
    IN  << <<"Quantified impact: ">> \o Prefix(sample, SampleChars)
               \o <<" (add metrics like % or $)">>,
           <<"Active verbs first; remove filler; keep to one line.">>,
           <<"Match keywords from the job description; highlight tools/results.">> >>

\* what llm.invoke does: it raises, or it returns a message whose content is
\* a text or a list of parts, and whose str() is its repr
LlmRaises == [kind |-> "raises"]
LlmParts  == [kind |-> "parts"]
LlmText(content) ==
    [kind |-> "text", content |-> content,
     str |-> <<"c","o","n","t","e","n","t","=","'","'">>]
LlmOutcomes ==
    { LlmRaises, LlmParts,
      LlmText(<<"-"," ","A","\n","-"," ","B","\n","-"," ","C">>),
      LlmText(<<"1","\n","\n","2","\n","-"," ","\n","4","\n","5","\n">>),
      LlmText(<<" ","\n">>),
      LlmText(<<>>) }
NotAsked == [kind |-> "not asked"]

\* the texts of the try block that come out of a returned message
LlmSuggestions(llm) ==
    LET content == IF llm.content # <<>> THEN llm.content ELSE llm.str
    IN  Prefix(BulletLines(splitlines(Strip(content))), SuggestionCount)

EnhancerResult(resume_text, suggestions, reasoning) ==
    [outcome |-> "returned", name |-> "ContentEnhancer",
     resume_text_len |-> Len(resume_text),
     suggestions |-> suggestions, reasoning |-> reasoning]

\* an exception of the model call leaves the function
content_enhancer_agent_propagating(resume_text, gemini, google, binding, llm) ==
    IF can_use_llm(gemini, google, binding) /\ llm.kind = "text"
    THEN EnhancerResult(resume_text, LlmSuggestions(llm), GeneratedReasoning)
    ELSE IF can_use_llm(gemini, google, binding)
    THEN [outcome |-> "raised", name |-> "ContentEnhancer",
          resume_text_len |-> Len(resume_text), suggestions |-> <<>>, reasoning |-> ""]
    ELSE EnhancerResult(resume_text, FallbackSuggestions(resume_text), FallbackReasoning)

content_enhancer_agent(resume_text, gemini, google, binding, llm) ==
    IF can_use_llm(gemini, google, binding) /\ llm.kind = "text"
    THEN EnhancerResult(resume_text, LlmSuggestions(llm), GeneratedReasoning)
    \* a call that raised, or .strip() on a list of parts: caught, can_use_llm
    \* becomes False; or the model was never asked
    ELSE EnhancerResult(resume_text, FallbackSuggestions(resume_text), FallbackReasoning)

\* raw_text of a parsed resume
EnhancerTexts ==
    { <<>>, <<" ", "\n">>, <<"\n", " ", "l", "e", "d", " ", "\n", "S", "Q", "L">>,
      <<"A", "I">>, [i \in 1..(SampleChars + 1) |-> "x"] }

ContentEnhancerAgent(resume_text, gemini, google, binding, llm) ==
    lib_call' = [fn |-> "content_enhancer_agent", resume_text |-> resume_text,
                 GEMINI_API_KEY |-> gemini, GOOGLE_API_KEY |-> google,
                 ChatGoogleGenerativeAI |-> binding, llm |-> llm,
                 result |-> content_enhancer_agent(resume_text, gemini, google, binding, llm)]

EnhancerInit ==
    /\ AppIdle /\ ai_env = FALSE /\ AgentIdle /\ PdfIdle /\ AiIdle /\ ProtoIdle
    /\ lib_call = NoLibCall

NextEnhancer ==
    \E resume_text \in EnhancerTexts, gemini \in EnvValues, google \in EnvValues,
       binding \in BOOLEAN :
        \E llm \in IF can_use_llm(gemini, google, binding) THEN LlmOutcomes ELSE {NotAsked} :
            ContentEnhancerAgent(resume_text, gemini, google, binding, llm)
                /\ UNCHANGED <<appVars, agentVars, pdfVars, aiVars, protoVars>>

SpecEnhancer == EnhancerInit /\ [][NextEnhancer]_vars

Enhanced == lib_call.fn = "content_enhancer_agent"
NoCredential == lib_call.GEMINI_API_KEY # "key" /\ lib_call.GOOGLE_API_KEY # "key"
ModelCallFailed == lib_call.llm.kind # "text"

\* C24: content_enhancer_agent returns a result for every resume text: the
\* three rule-based suggestions with the fallback reasoning whenever no
\* credential is configured or the model call does not come back with a
\* text, and otherwise the model's lines, at most three, with the reasoning
\* that names the model
C24_EnhancerAlwaysAnswers ==
    Enhanced =>
        /\ lib_call.result.outcome = "returned"
        /\ IF NoCredential \/ ModelCallFailed
           THEN /\ lib_call.result.suggestions = FallbackSuggestions(lib_call.resume_text)
                /\ Len(lib_call.result.suggestions) = SuggestionCount
                /\ lib_call.result.reasoning = FallbackReasoning
           ELSE /\ lib_call.result.suggestions = LlmSuggestions(lib_call.llm)
                /\ Len(lib_call.result.suggestions) <= SuggestionCount
                /\ lib_call.result.reasoning = GeneratedReasoning

\* the model was asked and raised, and the answer is the fallback one
C24_Witness ==
    /\ Enhanced
    /\ lib_call.llm = LlmRaises
    /\ lib_call.result.reasoning = FallbackReasoning
    /\ Len(lib_call.result.suggestions) = SuggestionCount

\* a reply of more than three lines is cut to three
C24_ModelPathWitness ==
    /\ Enhanced
    /\ lib_call.llm.kind = "text"
    /\ Len(BulletLines(splitlines(Strip(lib_call.llm.content)))) > SuggestionCount
    /\ Len(lib_call.result.suggestions) = SuggestionCount
    /\ lib_call.result.reasoning = GeneratedReasoning

----------------------------------------------------------------------------
(* The prototype's ParserAgent (backend/parser_agent.py): the text is      *)
(* normalized, cut into sections at the section keywords and split into    *)
(* bullets.                                                                *)

SECTION_KEYS == <<"experience", "education", "skills", "projects", "summary", "certifications">>
SectionKeyChars ==
    [experience |-> <<"e", "x", "p", "e", "r", "i", "e", "n", "c", "e">>,
     education |-> <<"e", "d", "u", "c", "a", "t", "i", "o", "n">>,
     skills |-> <<"s", "k", "i", "l", "l", "s">>,
     projects |-> <<"p", "r", "o", "j", "e", "c", "t", "s">>,
     summary |-> <<"s", "u", "m", "m", "a", "r", "y">>,
     certifications |-> <<"c", "e", "r", "t", "i", "f", "i", "c", "a", "t", "i", "o", "n", "s">>]

\* str.lower(): one character for an ASCII capital, two for the dotted
\* capital I (U+0130 becomes i followed by the combining dot U+0307)
RECURSIVE str_lower(_)
str_lower(text) ==
    IF text = <<>> THEN <<>>
    ELSE (IF Head(text) = "U+0130" THEN <<"i", "U+0307">> ELSE <<ToLower(Head(text))>>)
             \o str_lower(Tail(text))

\* \w of the regular expressions: letters, digits and the underscore
IsWordChar(c) == IsCased(c) \/ c \in {"0","1","2","3","4","5","6","7","8","9","_","U+0130"}

\* re.search(rf"\b{k}\b", s): whether k stands at offset p of s as a whole word
WordAt(k, s, p) ==
    /\ p + Len(k) <= Len(s)
    /\ SubSeq(s, p + 1, p + Len(k)) = k
    /\ (p = 0 \/ ~IsWordChar(s[p]))
    /\ (p + Len(k) = Len(s) \/ ~IsWordChar(s[p + Len(k) + 1]))
Found(k, s) == \E p \in 0..Len(s) : WordAt(k, s, p)
\* m.start() of the first match
start(k, s) == CHOOSE p \in 0..Len(s) : WordAt(k, s, p) /\ \A q \in 0..(p - 1) : ~WordAt(k, s, q)

\* text[a:b] with offsets counted from 0
Slice(text, a, b) ==
    LET e == IF b < Len(text) THEN b ELSE Len(text)
    IN  IF a >= e THEN <<>> ELSE SubSeq(text, a + 1, e)

RECURSIVE CollapseBlanks(_)
\* re.sub(r"[ \t]+", " ", text)
CollapseBlanks(text) ==
    IF text = <<>> THEN <<>>
    ELSE IF Head(text) \in {" ", "\t"}
    THEN IF Len(text) > 1 /\ text[2] \in {" ", "\t"}
         THEN CollapseBlanks(Tail(text))
         ELSE <<" ">> \o CollapseBlanks(Tail(text))
    ELSE <<Head(text)>> \o CollapseBlanks(Tail(text))

RECURSIVE CollapseNewlines(_)
\* re.sub(r"\n{2,}", "\n\n", text)
CollapseNewlines(text) ==
    IF Len(text) >= 3 /\ text[1] = "\n" /\ text[2] = "\n" /\ text[3] = "\n"
    THEN CollapseNewlines(Tail(text))
    ELSE IF text = <<>> THEN <<>>
    ELSE <<Head(text)>> \o CollapseNewlines(Tail(text))

_normalize_text(text) ==
    Strip(CollapseNewlines(CollapseBlanks(
        [i \in 1..Len(text) |-> IF text[i] = "\r" THEN "\n" ELSE text[i]])))

\* the keys found in the lowered text, and each one's offset there
positions(text) ==
    { k \in Range(SECTION_KEYS) : Found(SectionKeyChars[k], str_lower(text)) }
position(k, text) == start(SectionKeyChars[k], str_lower(text))

\* the offset where the section after offset a ends: the least later offset
\* of a found key, or the length of the text
section_end(a, offsets, length) ==
    LET later == { e \in offsets : e > a }
    IN  IF later = {} THEN length ELSE CHOOSE e \in later : \A f \in later : e <= f

_sectionize(text) ==
    LET offsets == { position(k, text) : k \in positions(text) }
    IN  IF positions(text) = {} THEN [k \in {"body"} |-> text]
        ELSE [k \in positions(text) |->
                  Strip(Slice(text, position(k, text),
                              section_end(position(k, text), offsets, Len(text))))]

SentenceEnd == {".", "!", "?"}
BulletMarkers == {"-", "U+2022", "*"}
MinFragmentChars == 4

RECURSIVE SplitSentences(_)
\* re.split(r"(?<=[.!?])\s+", ln)
SplitSentences(ln) ==
    LET cuts == { i \in 2..Len(ln) : IsSpace(ln[i]) /\ ln[i - 1] \in SentenceEnd }
    IN  IF cuts = {} THEN <<ln>>
        ELSE LET i == CHOOSE c \in cuts : \A d \in cuts : c <= d
             IN  <<SubSeq(ln, 1, i - 1)>>
                     \o SplitSentences(LStrip(SubSeq(ln, i, Len(ln))))

RECURSIVE LongFragments(_)
\* [s.strip() for s in fragments if len(s.strip()) > 4]
LongFragments(fragments) ==
    IF fragments = <<>> THEN <<>>
    ELSE (IF Len(Strip(Head(fragments))) > MinFragmentChars
          THEN <<Strip(Head(fragments))>> ELSE <<>>)
             \o LongFragments(Tail(fragments))

\* re.match(r"^[-*]\s+", ln), the bullet glyph being the third marker
IsMarked(ln) == Len(ln) >= 2 /\ ln[1] \in BulletMarkers /\ IsSpace(ln[2])

\* the marker stays on a marked line
LineBullets_marker_kept(ln) == IF IsMarked(ln) THEN <<ln>> ELSE LongFragments(SplitSentences(ln))

\* the bullets of one stripped line
LineBullets(ln) ==
    IF IsMarked(ln) THEN <<LStrip(Tail(ln))>> ELSE LongFragments(SplitSentences(ln))

RECURSIVE BulletsOf(_)
BulletsOf(lines) ==
    IF lines = <<>> THEN <<>> ELSE LineBullets(Head(lines)) \o BulletsOf(Tail(lines))

_split_bullets(text) == BulletsOf(StrippedNonEmpty(SplitLines(text)))

NoText ==
    <<>>
NoKeys ==
    <<"n", "o", " ", "k", "e", "y", "s">>
BuiltImprovedReduced ==
    <<"-", " ", "B", "u", "i", "l", "t", " ", "X", "\n", "I", "m", "p", "r",
      "o", "v", "e", "d", " ", "Y", ".", " ", "R", "e", "d", "u", "c", "e",
      "d", " ", "Z", ".">>
SkillsEducation ==
    <<"S", "k", "i", "l", "l", "s", ":", " ", "s", "q", "l", "\n", "E", "d",
      "u", "c", "a", "t", "i", "o", "n", ":", " ", "B", "S", "c">>
DottedCapital ==
    <<"U+0130", " ", "s", "k", "i", "l", "l", "s", " ", "s", "q", "l">>
Unnormalized ==
    <<"E", "d", "u", "c", "a", "t", "i", "o", "n", "\n", "\n", "\n", "m",
      "y", "_", "s", "k", "i", "l", "l", "s", " ", " ", "\t", "S", "k", "i",
      "l", "l", "s">>
Sentences ==
    <<"H", "i", ".", " ", "Y", "e", "s", "!", " ", " ", "W", "e", "n", "t",
      " ", "t", "h", "e", "r", "e", "?", " ", "o", "k">>
Markers ==
    <<"*", " ", "-", " ", "x", "\r", "-", "\n", "-", "B", "u", "i", "l", "t",
      "\n", "U+2022", " ", "o", "n", "e">>
SummaryProjects ==
    <<"p", "r", "o", "j", "e", "c", "t", "s", " ", "s", "u", "m", "m", "a",
      "r", "y">>
JobTexts ==
    { NoText, NoKeys, BuiltImprovedReduced, SkillsEducation, DottedCapital, Unnormalized, Sentences, Markers, SummaryProjects }


ParseResult(raw_text) ==
    [raw_text |-> raw_text, sections |-> _sectionize(raw_text),
     bullets |-> _split_bullets(raw_text)]

parse_job_text(text) == ParseResult(_normalize_text(text))

ParseJobText(text) ==
    lib_call' = [fn |-> "parse_job_text", text |-> text, result |-> parse_job_text(text)]

----------------------------------------------------------------------------
(* The prototype's MatcherAgent (backend/matcher_agent.py): the bullets    *)
(* are grouped into chunks, the chunks embedded, and every resume chunk is *)
(* paired with its nearest job chunk.                                      *)

ResumeChunkSize == 4
JobChunkSize == 3
MinChunkChars == 15
TopPairs == 5

RECURSIVE Join(_)
\* " ".join(lines)
Join(lines) ==
    IF lines = <<>> THEN <<>>
    ELSE IF Len(lines) = 1 THEN Head(lines)
    ELSE Head(lines) \o <<" ">> \o Join(Tail(lines))

RECURSIVE ChunksFrom(_, _)
\* the loop of _chunk: every group of chunk_size lines, joined and stripped,
\* that is longer than 15 characters
ChunksFrom(lines, chunk_size) ==
    IF lines = <<>> THEN <<>>
    ELSE LET chunk == Strip(Join(Prefix(lines, chunk_size)))
         IN  (IF Len(chunk) > MinChunkChars THEN <<chunk>> ELSE <<>>)
                 \o ChunksFrom(SubSeq(lines, Min(chunk_size, Len(lines)) + 1, Len(lines)),
                               chunk_size)

_chunk(lines, chunk_size) ==
    IF ChunksFrom(lines, chunk_size) # <<>> THEN ChunksFrom(lines, chunk_size)
    ELSE <<Join(lines)>>

\* unit vectors in fifths: what model.encode(normalize_embeddings=True) can
\* give; the encoder of a run is one of the EncoderSeeds
UnitVectors == << <<5, 0>>, <<3, 4>>, <<0, 5>>, <<-3, 4>>, <<-5, 0>>, <<4, -3>> >>
EncoderSeeds == {1, 2, 5}
_embed(texts, seed) ==
    [i \in 1..Len(texts) |-> UnitVectors[((Len(texts[i]) * seed) % Len(UnitVectors)) + 1]]

\* the inner product of two unit vectors
InnerProduct(a, b) == Rat(a[1] * b[1] + a[2] * b[2], 25)

\* index.search(r, k=1) on the flat inner-product index of the job chunks:
\* the offset and the score of a job chunk of largest inner product, the
\* first or the last such chunk
Ties == {"first", "last"}
search(J_emb, r, tie) ==
    LET best == { j \in 1..Len(J_emb) :
                    \A l \in 1..Len(J_emb) : RLeq(InnerProduct(r, J_emb[l]), InnerProduct(r, J_emb[j])) }
        j == IF tie = "first" THEN CHOOSE a \in best : \A b \in best : a <= b
             ELSE CHOOSE a \in best : \A b \in best : a >= b
    IN  [I |-> j - 1, D |-> InnerProduct(r, J_emb[j])]

\* sorted(pairs, key=lambda x: x[2], reverse=True): equal scores keep their order
InsertByScore(p, sorted) ==
    LET before == { k \in 1..Len(sorted) : RLeq(p[3], sorted[k][3]) }
        n == Cardinality(before)
    IN  SubSeq(sorted, 1, n) \o <<p>> \o SubSeq(sorted, n + 1, Len(sorted))

RECURSIVE SortByScore(_)
SortByScore(pairs) ==
    IF pairs = <<>> THEN <<>>
    ELSE InsertByScore(pairs[Len(pairs)], SortByScore(SubSeq(pairs, 1, Len(pairs) - 1)))

MatchDetails(R, J, pairs, kept) ==
    [resume_chunks |-> R, job_chunks |-> J,
     top_pairs |-> Prefix(SortByScore(pairs), kept),
     overall_similarity |->
         IF pairs = <<>> THEN RInt(0)
         ELSE RDiv(RSum([i \in 1..Len(pairs) |-> pairs[i][3]]), RInt(Len(pairs)))]

\* the pairs of all the resume chunks, with offsets counted from 0
Pairs(R_emb, J_emb, tie) ==
    [i \in 1..Len(R_emb) |->
        <<i - 1, search(J_emb, R_emb[i], tie).I, search(J_emb, R_emb[i], tie).D>>]

\* every pair is kept
compute_similarity_all_pairs(resume_bullets, job_bullets, seed, tie) ==
    LET R == _chunk(resume_bullets, ResumeChunkSize)
        J == _chunk(job_bullets, JobChunkSize)
    IN  MatchDetails(R, J, Pairs(_embed(R, seed), _embed(J, seed), tie), Len(R))

compute_similarity(resume_bullets, job_bullets, seed, tie) ==
    LET R == _chunk(resume_bullets, ResumeChunkSize)
        J == _chunk(job_bullets, JobChunkSize)
    IN  MatchDetails(R, J, Pairs(_embed(R, seed), _embed(J, seed), tie), TopPairs)

\* bullet lists: n bullets of 4 to 8 characters, the k-th of (k * step) % 5 + 4
Bullet(n) == [i \in 1..n |-> "a"]
BulletList(n, step) == [k \in 1..n |-> Bullet(((k * step) % 5) + 4)]
BulletLists ==
    { <<>>, <<Bullet(3)>>, BulletList(3, 1), BulletList(9, 2), BulletList(13, 3),
      BulletList(24, 1) }

ComputeSimilarity(resume_bullets, job_bullets, seed, tie) ==
    lib_call' = [fn |-> "compute_similarity", resume_bullets |-> resume_bullets,
                 job_bullets |-> job_bullets,
                 result |-> compute_similarity(resume_bullets, job_bullets, seed, tie)]

BackendInit ==
    /\ AppIdle /\ ai_env = FALSE /\ AgentIdle /\ PdfIdle /\ AiIdle /\ ProtoIdle
    /\ lib_call = NoLibCall

NextBackend ==
    \/ \E text \in JobTexts :
           ParseJobText(text)
               /\ UNCHANGED <<appVars, agentVars, pdfVars, aiVars, protoVars>>
    \/ \E resume_bullets \in BulletLists, job_bullets \in BulletLists,
          seed \in EncoderSeeds, tie \in Ties :
           ComputeSimilarity(resume_bullets, job_bullets, seed, tie)
               /\ UNCHANGED <<appVars, agentVars, pdfVars, aiVars, protoVars>>

SpecBackend == BackendInit /\ [][NextBackend]_vars

Matched == lib_call.fn = "compute_similarity"

\* C25: in every MatchDetails of compute_similarity, top_pairs holds at
\* most five triples (i, j, score), i an offset into resume_chunks, j an
\* offset into job_chunks, the scores never increasing along the list;
\* empty bullet lists included
C25_TopPairsValid ==
    Matched =>
        LET md == lib_call.result
        IN  /\ Len(md.top_pairs) <= TopPairs
            /\ \A k \in 1..Len(md.top_pairs) :
                   /\ 0 <= md.top_pairs[k][1]
                   /\ md.top_pairs[k][1] < Len(md.resume_chunks)
                   /\ 0 <= md.top_pairs[k][2]
                   /\ md.top_pairs[k][2] < Len(md.job_chunks)
            /\ \A k \in 1..(Len(md.top_pairs) - 1) :
                   RLeq(md.top_pairs[k + 1][3], md.top_pairs[k][3])

\* more than five resume chunks were paired, and five pairs of differing
\* scores are kept
C25_Witness ==
    /\ Matched
    /\ Len(lib_call.result.resume_chunks) > TopPairs
    /\ Len(lib_call.result.top_pairs) = TopPairs
    /\ lib_call.result.top_pairs[1][3] # lib_call.result.top_pairs[TopPairs][3]

\* both bullet lists are empty: one chunk each, the empty text, and one pair
C25_EmptyListsWitness ==
    /\ Matched
    /\ lib_call.resume_bullets = <<>> /\ lib_call.job_bullets = <<>>
    /\ lib_call.result.resume_chunks = << <<>> >>
    /\ lib_call.result.top_pairs = << <<0, 0, RInt(1)>> >>

Parsed == lib_call.fn = "parse_job_text"

\* the section keywords that stand in the text as whole words, in whatever
\* case, and the offset of each one's first match in the text
KeywordsIn(text) == { k \in Range(SECTION_KEYS) : Found(SectionKeyChars[k], Lower(text)) }
FirstMatch(k, text) == start(SectionKeyChars[k], Lower(text))

\* the slice of the text from the first match of k to the first match of
\* the next keyword found, or to the end of the text
SectionSlice(k, text) ==
    Slice(text, FirstMatch(k, text),
          section_end(FirstMatch(k, text),
                      { FirstMatch(n, text) : n \in KeywordsIn(text) }, Len(text)))

\* C26: the sections of a text without section keyword are the one section
\* "body" holding the normalized text; otherwise there is one section per
\* keyword found, holding the slice of the text from that keyword's first
\* match to the first match of the next keyword found, or to the end of the
\* text (with or without the white space around the slice)
C26_SectionsAreSlices ==
    Parsed =>
        LET text == lib_call.result.raw_text
            sections == lib_call.result.sections
        IN  /\ text = _normalize_text(lib_call.text)
            /\ IF KeywordsIn(text) = {}
               THEN sections = [k \in {"body"} |-> text]
               ELSE /\ DOMAIN sections = KeywordsIn(text)
                    /\ \A k \in KeywordsIn(text) :
                           sections[k] \in { SectionSlice(k, text), Strip(SectionSlice(k, text)) }

\* the text without keyword is kept whole under "body"
C26_BodyOnly ==
    (Parsed /\ KeywordsIn(lib_call.result.raw_text) = {}) =>
        lib_call.result.sections = [k \in {"body"} |-> lib_call.result.raw_text]

\* the number of bullets a stripped line gives
BulletCount(ln) ==
    IF IsMarked(ln) THEN 1
    ELSE Cardinality({ i \in 1..Len(SplitSentences(ln)) :
                         Len(Strip(SplitSentences(ln)[i])) > MinFragmentChars })

\* b is the line without its marker and the white space after the marker
IsUnmarked(b, ln) ==
    \E n \in 1..(Len(ln) - 1) :
        /\ \A i \in 2..(n + 1) : IsSpace(ln[i])
        /\ b = SubSeq(ln, n + 2, Len(ln))
        /\ (b = <<>> \/ ~IsSpace(b[1]))

\* b is one sentence of the line: a piece of it that is longer than four
\* characters, has no sentence boundary inside, and is bounded by the ends
\* of the line or by sentence boundaries
IsSentenceOf(b, ln) ==
    /\ Len(b) > MinFragmentChars
    /\ \A i \in 2..Len(b) : ~(IsSpace(b[i]) /\ b[i - 1] \in SentenceEnd)
    /\ \E p \in 0..(Len(ln) - Len(b)) :
           /\ SubSeq(ln, p + 1, p + Len(b)) = b
           /\ (p = 0 \/ (IsSpace(ln[p]) /\ ~IsSpace(b[1])))
           /\ (p + Len(b) = Len(ln) \/ (IsSpace(ln[p + Len(b) + 1]) /\ b[Len(b)] \in SentenceEnd))

\* the bullets from offset `from` on are those of the lines, line by line
RECURSIVE BulletsFollowLines(_, _)
BulletsFollowLines(bullets, lines) ==
    IF lines = <<>> THEN bullets = <<>>
    ELSE LET ln == Head(lines)
             n  == BulletCount(ln)
         IN  /\ Len(bullets) >= n
             /\ \A i \in 1..n :
                    IF IsMarked(ln) THEN IsUnmarked(bullets[i], ln)
                    ELSE IsSentenceOf(bullets[i], ln)
             /\ BulletsFollowLines(SubSeq(bullets, n + 1, Len(bullets)), Tail(lines))

\* C27: the bullets of a text are those of its non-empty lines in input
\* order: a line that starts with a dash, bullet glyph or asterisk and white
\* space gives one bullet, the line without the marker; any other line gives
\* its sentences that are longer than four characters; and the text
\* "- Built X\nImproved Y. Reduced Z." gives exactly "Built X",
\* "Improved Y." and "Reduced Z."
C27_BulletsSplit ==
    Parsed =>
        /\ BulletsFollowLines(lib_call.result.bullets,
                              StrippedNonEmpty(SplitLines(lib_call.result.raw_text)))
        /\ lib_call.result.raw_text = BuiltImprovedReduced =>
               lib_call.result.bullets =
                   << <<"B", "u", "i", "l", "t", " ", "X">>,
                      <<"I", "m", "p", "r", "o", "v", "e", "d", " ", "Y", ".">>,
                      <<"R", "e", "d", "u", "c", "e", "d", " ", "Z", ".">> >>

\* the text of the example was parsed into its three bullets
C27_Witness ==
    /\ Parsed
    /\ lib_call.text = BuiltImprovedReduced
    /\ Len(lib_call.result.bullets) = 3
    /\ lib_call.result.bullets[1] = <<"B", "u", "i", "l", "t", " ", "X">>

\* a line of several sentences lost its short ones
C27_ShortFragmentsWitness ==
    /\ Parsed
    /\ lib_call.text = Sentences
    /\ Len(lib_call.result.bullets) = 1

----------------------------------------------------------------------------
(* Two sessions adding to the same named collection of the persistent      *)
(* Chroma directory. ChromaVectorStore.add_texts (src/src/vectorstore.py)  *)
(* counts the collection twice to make the ids and then calls              *)
(* collection.add; the steps of the two sessions interleave.               *)

MaxCalls == 2       \* add_texts calls per session
TextCounts == {0, 1, 2}    \* how many texts a call brings

\* the texts of a call, told apart by session, call and position
CallTexts(s, call, n) == [i \in 1..n |-> <<s, call, i>>]

StoredIds == { stored_docs[i].id : i \in 1..Len(stored_docs) }

\* lines 34-41, up to the first _current_count(): the lower end of the ids
BeginAddTexts(s, n) ==
    /\ sessions[s].pc = "idle"
    /\ sessions[s].calls < MaxCalls
    /\ sessions' = [sessions EXCEPT ![s] =
           IF n = 0
           THEN [@ EXCEPT !.calls = @ + 1, !.texts = <<>>, !.ids = <<>>,
                          !.outcome = "returned"]
           ELSE [@ EXCEPT !.pc = "counted", !.calls = @ + 1,
                          !.texts = CallTexts(s, sessions[s].calls + 1, n),
                          !.first = Len(stored_docs), !.ids = <<>>, !.outcome = ""]]
    /\ UNCHANGED stored_docs

\* line 41, the second _current_count(): the upper end, and the ids
\* doc-<first> .. doc-<last - 1>
CountAgain(s) ==
    /\ sessions[s].pc = "counted"
    /\ LET upper == Len(stored_docs) + Len(sessions[s].texts)
           ids   == [i \in 1..(upper - sessions[s].first) |-> sessions[s].first + i - 1]
       IN  sessions' = [sessions EXCEPT ![s] =
               [@ EXCEPT !.pc = "ids", !.last = upper, !.ids = ids,
                         !.assigned = @ \cup { <<sessions[s].calls, ids[i]>> :
                                                   i \in 1..Len(ids) }]]
    /\ UNCHANGED stored_docs

\* what collection.add does with ids that the collection already holds:
\* the releases of chromadb either raise or leave those records out
DuplicatePolicies == {"raise", "skip"}

RECURSIVE NewDocuments(_, _, _)
\* the documents whose id the collection does not hold yet
NewDocuments(ids, texts, held) ==
    IF ids = <<>> THEN <<>>
    ELSE (IF Head(ids) \in held THEN <<>> ELSE << Document(Head(ids), Head(texts)) >>)
             \o NewDocuments(Tail(ids), Tail(texts), held)

\* line 43: collection.add(documents=texts, ..., ids=ids)
collection_add(docs, texts, ids, policy) ==
    IF Len(ids) # Len(texts)
    THEN [outcome |-> "ValueError", docs |-> docs]
    ELSE IF \E i \in 1..Len(ids) : ids[i] \in { docs[j].id : j \in 1..Len(docs) }
    THEN IF policy = "raise"
         THEN [outcome |-> "DuplicateIDError", docs |-> docs]
         ELSE [outcome |-> "skipped",
               docs |-> docs \o NewDocuments(ids, texts, { docs[j].id : j \in 1..Len(docs) })]
    ELSE [outcome |-> "returned", docs |-> docs \o NewDocuments(ids, texts, {})]

CollectionAdd(s, policy) ==
    /\ sessions[s].pc = "ids"
    /\ LET done == collection_add(stored_docs, sessions[s].texts, sessions[s].ids, policy)
       IN  /\ stored_docs' = done.docs
           /\ sessions' = [sessions EXCEPT ![s] =
                  [@ EXCEPT !.pc = "idle", !.outcome = done.outcome]]

\* what earlier runs left in the persistent directory
PersistedCollections == { <<>>, << Document(0, CallTexts("earlier", 1, 1)[1]) >> }

SessionsInit ==
    /\ AppIdle /\ ai_env = FALSE /\ PdfIdle /\ AiIdle /\ ProtoIdle /\ LibIdle
    /\ chroma = NoChroma /\ agent_call = NoAgentCall
    /\ stored_docs \in PersistedCollections
    /\ sessions = NoSessions

NextSessions ==
    \/ \E s \in Sessions, n \in TextCounts :
           BeginAddTexts(s, n)
               /\ UNCHANGED <<appVars, chroma, agent_call, pdfVars, aiVars, protoVars, libVars>>
    \/ \E s \in Sessions :
           CountAgain(s)
               /\ UNCHANGED <<appVars, chroma, agent_call, pdfVars, aiVars, protoVars, libVars>>
    \/ \E s \in Sessions, policy \in DuplicatePolicies :
           CollectionAdd(s, policy)
               /\ UNCHANGED <<appVars, chroma, agent_call, pdfVars, aiVars, protoVars, libVars>>

SpecSessions == SessionsInit /\ [][NextSessions]_vars

\* the documents of the finished calls
FinishedTexts ==
    UNION { Range(sessions[s].texts) : s \in { t \in Sessions : sessions[t].pc = "idle" } }

\* C28: whatever the interleaving of the add_texts calls of the two
\* sessions, no two calls are assigned the same id, every stored document
\* has an id of its own, and no call ends with its add rejected or with a
\* document left out
C28_IdsNeverCollide ==
    /\ \A s, t \in Sessions : \A a \in sessions[s].assigned, b \in sessions[t].assigned :
           (s # t \/ a[1] # b[1]) => a[2] # b[2]
    /\ \A i, j \in 1..Len(stored_docs) : stored_docs[i].id = stored_docs[j].id => i = j
    /\ \A s \in Sessions : sessions[s].outcome \in {"", "returned"}
    /\ FinishedTexts \subseteq { stored_docs[i].text : i \in 1..Len(stored_docs) }

\* the collection itself never holds an id twice
C28_StoredIdsDistinct ==
    \A i, j \in 1..Len(stored_docs) : stored_docs[i].id = stored_docs[j].id => i = j

----------------------------------------------------------------------------
(* The average match score of the session across the two pages *)

\* the session of a user who opened the Resume Builder page and typed the
\* required fields: the state after SelectMode("Resume Builder") and
\* EditForm of the complete form, with a fresh count of the interactions
CompleteForm == [name |-> ann, email |-> mail, phone |-> tel]
FormFilledInit ==
    /\ clicks = 0
    /\ mode = "Resume Builder"
    /\ session_state = [RenderPage("Resume Builder", FreshSession) EXCEPT !.form = CompleteForm]
    /\ ranked_resumes = NoRanking
    /\ last = Did("edit", "shown", "")
    /\ recorded = <<>>
    /\ score_sum = RInt(0)
    /\ score_count = 0
    /\ passed = NonePassed
    /\ ai_env \in BOOLEAN
    /\ AgentIdle /\ PdfIdle /\ AiIdle /\ ProtoIdle /\ LibIdle

SpecFormFilled == FormFilledInit /\ [][Next]_vars

\* a Resume Builder submit that passed the validation of the form
BuilderSubmitted ==
    /\ clicks' # clicks
    /\ last'.op = "submit"
    /\ last'.outcome \in {"resume generated", "pdf failed"}

\* C29: a Resume Builder submission, which matches nothing, leaves
\* session_metrics['avg_match_score'] as it was, so that the average shown
\* is the mean of the scores of the ranking runs alone
C29_BuilderKeepsAverage ==
    [][BuilderSubmitted => Metrics'.avg_match_score = Metrics.avg_match_score]_vars

\* a ranking run of a positive average score was followed by an accepted
\* submission of the form
C29_SubmittedAfterRanking ==
    /\ last.op = "submit"
    /\ last.outcome \in {"resume generated", "pdf failed"}
    /\ Metrics.total_analyses = 2
    /\ Metrics.avg_match_score # RInt(0)

\* a submission counts as one more analysis of score 0: the average becomes
\* avg * (n - 1) / n
C29_BuilderDilutesAverage ==
    [][BuilderSubmitted =>
          /\ Metrics'.total_analyses = InitMetrics(session_state).session_metrics.total_analyses + 1
          /\ Metrics'.avg_match_score =
                 RDiv(RMul(InitMetrics(session_state).session_metrics.avg_match_score,
                           RInt(Metrics'.total_analyses - 1)),
                      RInt(Metrics'.total_analyses))]_vars

----------------------------------------------------------------------------
(* The library specification: each step is one call of a library function *)

LibInit ==
    /\ AppIdle /\ ai_env = FALSE /\ AgentIdle /\ PdfIdle /\ AiIdle /\ ProtoIdle
    /\ lib_call = NoLibCall

NextLib ==
    \/ \E file \in UploadedFiles :
           ValidatePdfUpload(file)
               /\ UNCHANGED <<appVars, agentVars, pdfVars, aiVars, protoVars>>
    \/ \E files \in Batches :
           ValidateMultiplePdfUploads(files)
               /\ UNCHANGED <<appVars, agentVars, pdfVars, aiVars, protoVars>>
    \/ \E collection \in Collections, texts \in TextLists,
          vectors \in VectorRows, metadatas \in MetadataLists :
           AddTexts(collection, texts, vectors, metadatas)
               /\ UNCHANGED <<appVars, agentVars, pdfVars, aiVars, protoVars>>
    \/ \E name \in UserTexts \cup {<<>>}, explanation \in UserTexts,
          skill \in UserTexts, snippet \in UserTexts :
           GenerateReport(name, explanation, skill, snippet)
               /\ UNCHANGED <<appVars, agentVars, pdfVars, aiVars, protoVars>>
    \/ \E name \in UserTexts, explanation \in UserTexts,
          skill \in UserTexts, snippet \in UserTexts :
           DiagnosticGenerateReport(name, explanation, skill, snippet)
               /\ UNCHANGED <<appVars, agentVars, pdfVars, aiVars, protoVars>>
    \/ \E resume_skills \in SkillLists, job_skills \in SkillLists :
           SkillGap(resume_skills, job_skills)
               /\ UNCHANGED <<appVars, agentVars, pdfVars, aiVars, protoVars>>
    \/ \E v \in VectorPairs, resume_skills \in ScoreSkillLists,
          job_skills \in ScoreSkillLists :
           ComputeMatchScore(v[1], v[2], resume_skills, job_skills)
               /\ UNCHANGED <<appVars, agentVars, pdfVars, aiVars, protoVars>>
    \/ \E resume_skills \in MatchSkillLists, job_skills \in MatchSkillLists :
           CalculateResumeJobMatch(resume_skills, job_skills)
               /\ UNCHANGED <<appVars, agentVars, pdfVars, aiVars, protoVars>>

SpecLib == LibInit /\ [][NextLib]_vars

=============================================================================
